---- MODULE Spec2Model ----
(***************************************************************************)
(* Render-resource management core of the ray.so code image MCP server:    *)
(* the admission gate (Semaphore, acquireRenderSlot, withRenderSlot), the   *)
(* browser manager (getBrowser, launchBrowser, closeBrowser), the          *)
(* create_code_image tool handler that drives a content-fit capture, the   *)
(* page pool (getPage, releasePage, closePagePool), captureScreenshot      *)
(* with its deadline timer, the parameter validation of createCodeImage,   *)
(* the SIGINT / SIGTERM shutdown handlers of startServer, the              *)
(* reconfiguration of the gate (configureConcurrency,                      *)
(* resetRenderSemaphore) and the viewport of a content-fit capture.        *)
(***************************************************************************)
EXTENDS Integers, Sequences, FiniteSets, TLC

(* ------------------------------ bounds -------------------------------- *)

\* largest configured maxConcurrentRenders explored
MaxRenders == 2
\* number of acquireRenderSlot / withRenderSlot calls
MaxCallers == 3
\* number of launchBrowser invocations
MaxLaunches == 2
\* number of getBrowser calls
MaxGets == 3
\* number of closeBrowser calls
MaxCloses == 2
\* number of create_code_image requests
MaxRequests == 2
\* number of page objects the pool's getPage can create
MaxPages == 6
\* number of page pool calls that start while another one is in flight
MaxOverlaps == 2
\* number of releasePage calls made by a caller that does not hold the page
MaxStrayReleases == 1
\* number of page objects alive at once where closePagePool is explored
MaxShutdownPages == 2
\* number of overlapping page pool calls where closePagePool is explored
MaxShutdownOverlaps == 1
\* number of captureScreenshot calls
MaxShots == 2

\* longest highlightedLines array given to createCodeImage
MaxLines == 2
\* number of resetRenderSemaphore calls
MaxResets == 1
\* number of configureConcurrency calls
MaxConfigures == 1
\* number of times one release callback is invoked
MaxReleases == 2
\* number of pooled pages that close themselves (renderer crash)
MaxCrashes == 1

\* page-pool.ts line 35
MAX_POOL_SIZE == 5

Callers == 1..MaxCallers
NoCaller == 0

\* launch l (the l-th call of launchBrowser) produces browser l
Launches == 1..MaxLaunches
Null == 0
Rejected == -1
\* a parameter the caller left out; -1 for the numeric ones
Undefined == "<undefined>"
UndefinedNumber == -1
\* getBrowser is called directly (DirectGetters) or by the capture of a request
DirectGetters == 1..MaxGets
Requests == 1..MaxRequests
ReqGetter(r) == MaxGets + r
\* pages are numbered; page p's creation in getPage uses getBrowser call PoolGetter(p)
Pages == 1..MaxPages
NoPage == 0
PoolGetter(p) == MaxGets + MaxRequests + p
\* captureScreenshot call s uses getBrowser call ShotGetter(s)
Shots == 1..MaxShots
ShotGetter(s) == MaxGets + MaxRequests + MaxPages + s
Getters == 1..(MaxGets + MaxRequests + MaxPages + MaxShots)
Closers == 1..MaxCloses

VARIABLES
    \* concurrency.ts module state
    maxConcurrentRenders,   \* config.maxConcurrentRenders
    permits,                \* renderSemaphore.permits
    waiting,                \* renderSemaphore.waiting (queue of onRelease closures, by caller)
    activeRenderCount,
    totalRenderCount,
    renderTimeouts,
    \* one acquireRenderSlot / withRenderSlot call per caller
    slotPc,                 \* position of the call
    slotMode,               \* "direct" = acquireRenderSlot, "with" = withRenderSlot
    acq,                    \* state of the promise returned by Semaphore.acquire
    timer,                  \* TRUE while the call's setTimeout is armed
    outcome,                \* what the call settled with
    \* history of the call
    ticket,                 \* arrival number of the call at the wait queue (0: never queued)
    nextTicket,
    timerFired,             \* the timeout callback of the call has run
    woken,                  \* onRelease of the call has run
    grants,                 \* number of permit decrements made for the call
    fnRuns,                 \* number of times withRenderSlot started fn
    releases                \* number of invocations of the call's release callback

VARIABLES
    \* browser-manager.ts module state
    browserInstance,        \* Null or the browser
    browserLaunchPromise,   \* Null or the launch in progress
    \* launchBrowser calls and the browsers they produce
    launch,                 \* "unused", "pending", "fulfilled", "rejected"
    connected,              \* "none", "connected", "disconnected": browser.isConnected()
    \* one getBrowser call per getter
    getPc,                  \* "idle", "launching" (line 65), "joined" (line 58), "done"
    getOn,                  \* the launch the call awaits
    getResult,              \* Null, the browser returned, or Rejected
    \* one closeBrowser call per closer
    closePc,                \* "idle", "awaitLaunch" (line 110), "closing" (line 121), "done"
    closeOn,                \* the launch the call awaits
    closeRef,               \* the local `browser` being closed
    closeOutcome,           \* "none", "returned", "threw"
    \* history
    getAfterClose,          \* a getBrowser call was made since this closeBrowser call began
    closeThrew,             \* browser.close() of this closeBrowser call threw
    staleNotified           \* browsers whose "disconnected" event arrived while another,
                            \* connected browser was the singleton

browserVars == <<browserInstance, browserLaunchPromise, launch, connected, getPc, getOn,
                 getResult, closePc, closeOn, closeRef, closeOutcome, getAfterClose,
                 closeThrew, staleNotified>>

VARIABLES
    \* one createCodeImage call per request
    reqPc,                  \* "idle", "html" (line 312), "capture" (line 336), "done"
    reqResult,              \* "none", or the errorCode / "success" of the result
    reqTimer,               \* TRUE while the GENERATION_TIMEOUT timer is armed
    \* the captureScreenshotFullContent call of the request
    capPc,                  \* "none", "getBrowser", "newContext", "newPage", "work",
                            \* "closePage", "closeContext", "settled"
    capValue,               \* "none", "buffer" or the error the capture settles with
    ctxState,               \* the browser context of the capture: "none", "open",
                            \* "closed", "closeFailed" (context.close() threw)
    pageState               \* the page of the capture, same values

\* page pool (page-pool.ts)
VARIABLES
    availablePages,         \* stack of pooled pages (push / pop at the end)
    pagesInUse,             \* Set<Page>
    poolPage,               \* per page: "none" (no such object), "open", "closed"
    pageOp,                 \* per page: the awaited step of the getPage / releasePage call on it
    held,                   \* per page: callers that got it from getPage and have not released it
    relFull,                \* per page: the releasePage in flight began with a full pool
    relOutcome,             \* how a releasePage call ended in the last step: "noop" (page
                            \* not checked out), "dropped" (page found closed), "caught"
                            \* (error logged), "threw", else "none"
    strayReleases,          \* releasePage calls made so far by non-holders
    overlaps,               \* pool calls so far that started while another was in flight
    poolClosePc,            \* closePagePool: position
    poolClosePage,          \* closePagePool: page being closed
    poolCloseTodo,          \* closePagePool: rest of inUseArray
    poolCloseSnapshot,      \* pages in either collection when closePagePool was called
                            \* that closePagePool has not dealt with yet
    poolCloseMissed         \* closePagePool has left out a close() on one of those pages

poolVars == <<availablePages, pagesInUse, poolPage, pageOp, held, relFull, relOutcome,
              strayReleases, overlaps, poolClosePc, poolClosePage, poolCloseTodo,
              poolCloseSnapshot, poolCloseMissed>>

\* captureScreenshot / performCapture (screenshot.ts)
VARIABLES
    shotPc,                 \* per call: position of performCapture
    shotTimer,              \* per call: the setTimeout of line 249: "unset", "armed", "fired"
    \* the next three are locals of performCapture, gone when it settles
    shotError,              \* per call: what the catch block caught, "none" if nothing
    shotPending,            \* per call: what performCapture returns or throws once its
                            \* finally block is through
    shotCause,              \* per call: the error to throw carries the caught one as cause
    shotResult,             \* per call: how the promise of captureScreenshot settled
    shotCtx,                \* per call: the browser context of line 268: "none", "open",
                            \* "closed", "closeFailed" (context.close() threw)
    shotPage                \* per call: the page of line 275, same values

shotVars == <<shotPc, shotTimer, shotError, shotPending, shotCause, shotResult,
              shotCtx, shotPage>>

\* one createCodeImage call seen as a function of its input (validation.ts,
\* create-code-image.ts lines 258-291)
VARIABLES
    valInput,               \* the input object of the call, NoInput where none is explored
    valResult               \* "none" before the call; then "valid" if validation let the
                            \* input through, else the errorCode of the result returned

valVars == <<valInput, valResult>>

\* the SIGINT / SIGTERM handlers registered by startServer (server.ts)
VARIABLES
    sigPc,                  \* per handler run: "idle", "closingPool", "closingBrowser",
                            \* "closingServer", "exited", "failed" (server.close() threw)
    exited                  \* process.exit(0) was called

sigVars == <<sigPc, exited>>

VARIABLES
    \* reconfiguration of the gate (configureConcurrency, resetRenderSemaphore)
    resets,                 \* number of resetRenderSemaphore calls made
    configures,             \* number of configureConcurrency calls made
    orphaned,               \* callers that were queued on a semaphore when it was replaced
    unsafeAdmin             \* a reconfiguration was made while an operation was in flight

adminVars == <<resets, configures, orphaned, unsafeAdmin>>

VARIABLES
    \* the browser contexts behind the pages of the pool
    poolCtx,                \* per page: "none", "open", "closed": the context of the page
    ctxLost,                \* an open context is referred to by nothing any more
    crashes,                \* pages of the pool that have closed themselves so far
    quietClose              \* closePagePool was called with every page released and no
                            \* pool call in flight

leakVars == <<poolCtx, ctxLost, crashes, quietClose>>

VARIABLES
    \* the viewport of one captureScreenshotFullContent call
    fitPc,                  \* "idle", "measure" (line 357), "resize" (line 375), "snapshot"
    fitOptions,             \* the maxWidth and maxHeight options of the call
    fitCaps,                \* maxWidth and maxHeight after the defaults
    fitDims,                \* the content size page.evaluate returned
    fitViewport             \* the viewport of the page

fitVars == <<fitPc, fitOptions, fitCaps, fitDims, fitViewport>>

toolVars == <<reqPc, reqResult, reqTimer, capPc, capValue, ctxState, pageState>>

gateVars == <<maxConcurrentRenders, permits, waiting, activeRenderCount, totalRenderCount,
              renderTimeouts, slotPc, slotMode, acq, timer, outcome, ticket, nextTicket,
              timerFired, woken, grants, fnRuns, releases>>

vars == <<gateVars, browserVars, toolVars, poolVars, shotVars, valVars, sigVars, adminVars,
          leakVars, fitVars>>

\* what the admission gate leaves alone, and what the browser manager leaves alone
nonGateVars ==
    <<browserVars, toolVars, poolVars, shotVars, valVars, sigVars, adminVars, leakVars, fitVars>>
nonBrowserVars ==
    <<gateVars, toolVars, poolVars, shotVars, valVars, sigVars, adminVars, leakVars, fitVars>>
nonToolVars ==
    <<gateVars, browserVars, poolVars, shotVars, valVars, sigVars, adminVars, leakVars, fitVars>>
nonPoolVars ==
    <<gateVars, browserVars, toolVars, shotVars, valVars, sigVars, adminVars, leakVars, fitVars>>
nonValVars ==
    <<gateVars, browserVars, toolVars, poolVars, shotVars, sigVars, adminVars, leakVars, fitVars>>
nonShotVars ==
    <<gateVars, browserVars, toolVars, poolVars, valVars, sigVars, adminVars, leakVars, fitVars>>
nonGateAdminVars ==
    <<browserVars, toolVars, poolVars, shotVars, valVars, sigVars, leakVars, fitVars>>
nonFitVars ==
    <<gateVars, browserVars, toolVars, poolVars, shotVars, valVars, sigVars, adminVars, leakVars>>
nonPoolLeakVars ==
    <<gateVars, browserVars, toolVars, shotVars, valVars, sigVars, adminVars, fitVars>>

(* ------------------------------ Semaphore ----------------------------- *)

\* Semaphore.acquire, line 71: a permit is free
PermitFreeOffByOne(p) == p >= 0
PermitFree(p) == p > 0

\* timeout callback, lines 80-83: indexOf + splice
RECURSIVE RemoveWaiter(_, _)
RemoveWaiterKeep(w, c) == w
RemoveWaiter(w, c) ==
    IF w = <<>> THEN <<>>
    ELSE IF Head(w) = c THEN Tail(w)
    ELSE <<Head(w)>> \o RemoveWaiter(Tail(w), c)

\* onRelease, line 88: clearTimeout(timeoutId)
ClearTimeout(t, c) == [t EXCEPT ![c] = FALSE]

\* first resolve() of a promise wins, later ones are ignored
Resolve(a, c, v) == IF a[c] = "pending" THEN [a EXCEPT ![c] = v] ELSE a

\* Semaphore.release: permits++, then wake the head waiter, whose onRelease
\* takes the permit again.  woken = NoCaller when nobody is woken.
SemaphoreReleaseNoWake(p, w) ==
    [permits |-> p + 1, waiting |-> w, woken |-> NoCaller]
SemaphoreReleaseNoTake(p, w) ==
    LET p1 == p + 1 IN
    IF Len(w) > 0 /\ p1 > 0
    THEN [permits |-> p1, waiting |-> Tail(w), woken |-> Head(w)]
    ELSE [permits |-> p1, waiting |-> w, woken |-> NoCaller]
SemaphoreReleaseLifo(p, w) ==
    LET p1 == p + 1 IN
    IF Len(w) > 0 /\ p1 > 0
    THEN [permits |-> p1 - 1, waiting |-> SubSeq(w, 1, Len(w) - 1), woken |-> w[Len(w)]]
    ELSE [permits |-> p1, waiting |-> w, woken |-> NoCaller]
SemaphoreRelease(p, w) ==
    LET p1 == p + 1 IN
    IF Len(w) > 0 /\ p1 > 0
    THEN [permits |-> p1 - 1, waiting |-> Tail(w), woken |-> Head(w)]
    ELSE [permits |-> p1, waiting |-> w, woken |-> NoCaller]

\* acquireRenderSlot, line 155: renderTimeouts++
CountTimeoutSkip(n) == n
CountTimeout(n) == n + 1

\* acquireRenderSlot, line 164: totalRenderCount++
CountRenderSkip(n) == n
CountRender(n) == n + 1

\* resetRenderSemaphore, line 143: the replaced Semaphore object is dropped
\* with its queue, but the setTimeout of every acquire queued on it stays
\* armed (nothing clears it)
OrphanTimersCancelled(t, w) ==
    [c \in Callers |-> t[c] /\ ~(\E i \in 1..Len(w) : w[i] = c)]
OrphanTimers(t, w) == t

(* ------------------------------- Init --------------------------------- *)

\* the gate as set up at startup by configureConcurrency({maxConcurrentRenders})
\* followed by resetRenderSemaphore(): every permit free, nobody queued
InitGate ==
    /\ maxConcurrentRenders \in 1..MaxRenders
    /\ permits = maxConcurrentRenders
    /\ waiting = <<>>
    /\ activeRenderCount = 0
    /\ totalRenderCount = 0
    /\ renderTimeouts = 0
    /\ slotPc = [c \in Callers |-> "idle"]
    /\ slotMode = [c \in Callers |-> "direct"]
    /\ acq = [c \in Callers |-> "pending"]
    /\ timer = [c \in Callers |-> FALSE]
    /\ outcome = [c \in Callers |-> "none"]
    /\ ticket = [c \in Callers |-> 0]
    /\ nextTicket = 1
    /\ timerFired = [c \in Callers |-> FALSE]
    /\ woken = [c \in Callers |-> FALSE]
    /\ grants = [c \in Callers |-> 0]
    /\ fnRuns = [c \in Callers |-> 0]
    /\ releases = [c \in Callers |-> 0]

InitBrowser ==
    /\ browserInstance = Null
    /\ browserLaunchPromise = Null
    /\ launch = [l \in Launches |-> "unused"]
    /\ connected = [l \in Launches |-> "none"]
    /\ getPc = [g \in Getters |-> "idle"]
    /\ getOn = [g \in Getters |-> Null]
    /\ getResult = [g \in Getters |-> Null]
    /\ closePc = [k \in Closers |-> "idle"]
    /\ closeOn = [k \in Closers |-> Null]
    /\ closeRef = [k \in Closers |-> Null]
    /\ closeOutcome = [k \in Closers |-> "none"]
    /\ getAfterClose = [k \in Closers |-> FALSE]
    /\ closeThrew = [k \in Closers |-> FALSE]
    /\ staleNotified = {}

InitTool ==
    /\ reqPc = [r \in Requests |-> "idle"]
    /\ reqResult = [r \in Requests |-> "none"]
    /\ reqTimer = [r \in Requests |-> FALSE]
    /\ capPc = [r \in Requests |-> "none"]
    /\ capValue = [r \in Requests |-> "none"]
    /\ ctxState = [r \in Requests |-> "none"]
    /\ pageState = [r \in Requests |-> "none"]

\* page-pool.ts lines 40 and 45: both collections start empty
InitPool ==
    /\ availablePages = <<>>
    /\ pagesInUse = {}
    /\ poolPage = [p \in Pages |-> "none"]
    /\ pageOp = [p \in Pages |-> "none"]
    /\ held = [p \in Pages |-> 0]
    /\ relFull = [p \in Pages |-> FALSE]
    /\ relOutcome = "none"
    /\ strayReleases = 0
    /\ overlaps = 0
    /\ poolClosePc = "idle"
    /\ poolClosePage = NoPage
    /\ poolCloseTodo = {}
    /\ poolCloseSnapshot = {}
    /\ poolCloseMissed = FALSE

InitShot ==
    /\ shotPc = [s \in Shots |-> "idle"]
    /\ shotTimer = [s \in Shots |-> "unset"]
    /\ shotError = [s \in Shots |-> "none"]
    /\ shotPending = [s \in Shots |-> "none"]
    /\ shotCause = [s \in Shots |-> FALSE]
    /\ shotResult = [s \in Shots |-> "pending"]
    /\ shotCtx = [s \in Shots |-> "none"]
    /\ shotPage = [s \in Shots |-> "none"]

\* no createCodeImage input is singled out
NoInput == [code |-> "", theme |-> "", language |-> "", padding |-> 0, exportSize |-> 0,
            highlightedLines |-> [defined |-> FALSE, lines |-> <<>>]]

InitVal ==
    /\ valInput = NoInput
    /\ valResult = "none"

InitSig ==
    /\ sigPc = [k \in Closers |-> "idle"]
    /\ exited = FALSE

\* no reconfiguration has been made yet
InitAdmin ==
    /\ resets = 0
    /\ configures = 0
    /\ orphaned = {}
    /\ unsafeAdmin = FALSE

\* the pool has created no context yet
InitLeak ==
    /\ poolCtx = [p \in Pages |-> "none"]
    /\ ctxLost = FALSE
    /\ crashes = 0
    /\ quietClose = FALSE

InitResources ==
    /\ InitGate /\ InitBrowser /\ InitTool /\ InitPool /\ InitShot /\ InitSig
    /\ InitAdmin /\ InitLeak

\* no content-fit capture has read its options yet
NoSize == [width |-> 0, height |-> 0]
InitFit ==
    /\ fitPc = "idle"
    /\ fitOptions = [maxWidth |-> UndefinedNumber, maxHeight |-> UndefinedNumber]
    /\ fitCaps = NoSize
    /\ fitDims = NoSize
    /\ fitViewport = NoSize

Init == InitResources /\ InitVal /\ InitFit

(* ------------------------- admission gate actions --------------------- *)

\* acquireRenderSlot() / withRenderSlot(fn) is called: the synchronous part of
\* Semaphore.acquire runs (immediate grant, or arm the timer and enqueue).
AcquireRenderSlot(c, m) ==
    /\ slotPc[c] = "idle"
    /\ slotPc' = [slotPc EXCEPT ![c] = "acquiring"]
    /\ slotMode' = [slotMode EXCEPT ![c] = m]
    /\ IF PermitFree(permits)
       THEN /\ permits' = permits - 1
            /\ acq' = Resolve(acq, c, "true")
            /\ grants' = [grants EXCEPT ![c] = @ + 1]
            /\ UNCHANGED <<waiting, timer, ticket, nextTicket>>
       ELSE /\ timer' = [timer EXCEPT ![c] = TRUE]
            /\ waiting' = Append(waiting, c)
            /\ ticket' = [ticket EXCEPT ![c] = nextTicket]
            /\ nextTicket' = nextTicket + 1
            /\ UNCHANGED <<permits, acq, grants>>
    /\ UNCHANGED nonGateVars
    /\ UNCHANGED <<maxConcurrentRenders, activeRenderCount, totalRenderCount, renderTimeouts,
                   outcome, timerFired, woken, fnRuns, releases>>

\* the setTimeout callback of a queued acquire fires
AcquireTimeout(c) ==
    /\ timer[c]
    /\ timer' = [timer EXCEPT ![c] = FALSE]
    /\ timerFired' = [timerFired EXCEPT ![c] = TRUE]
    /\ waiting' = RemoveWaiter(waiting, c)
    /\ acq' = Resolve(acq, c, "false")
    /\ UNCHANGED nonGateVars
    /\ UNCHANGED <<maxConcurrentRenders, permits, activeRenderCount, totalRenderCount,
                   renderTimeouts, slotPc, slotMode, outcome, ticket, nextTicket, woken,
                   grants, fnRuns, releases>>

\* acquireRenderSlot resumes after `await renderSemaphore.acquire(...)`;
\* for withRenderSlot the continuation after `await acquireRenderSlot()` follows.
AcquireResume(c) ==
    /\ slotPc[c] = "acquiring"
    /\ acq[c] # "pending"
    /\ IF acq[c] = "false"
       THEN /\ renderTimeouts' = CountTimeout(renderTimeouts)
            /\ slotPc' = [slotPc EXCEPT ![c] = "done"]
            /\ outcome' = [outcome EXCEPT ![c] =
                             IF slotMode[c] = "with" THEN "capacityError" ELSE "null"]
            /\ UNCHANGED <<activeRenderCount, totalRenderCount, fnRuns>>
       ELSE /\ activeRenderCount' = activeRenderCount + 1
            /\ totalRenderCount' = CountRender(totalRenderCount)
            /\ IF slotMode[c] = "with"
               THEN /\ slotPc' = [slotPc EXCEPT ![c] = "running"]
                    /\ fnRuns' = [fnRuns EXCEPT ![c] = @ + 1]
                    /\ UNCHANGED outcome
               ELSE /\ slotPc' = [slotPc EXCEPT ![c] = "holding"]
                    /\ outcome' = [outcome EXCEPT ![c] = "release"]
                    /\ UNCHANGED fnRuns
            /\ UNCHANGED renderTimeouts
    /\ UNCHANGED nonGateVars
    /\ UNCHANGED <<maxConcurrentRenders, permits, waiting, slotMode, acq, timer, ticket,
                   nextTicket, timerFired, woken, grants, releases>>

\* body of the release callback returned by acquireRenderSlot (lines 172-180),
\* invoked for call c
ReleaseCallback(c) ==
    LET r == SemaphoreRelease(permits, waiting) IN
    /\ activeRenderCount' = activeRenderCount - 1
    /\ releases' = [releases EXCEPT ![c] = @ + 1]
    /\ permits' = r.permits
    /\ waiting' = r.waiting
    /\ IF r.woken # NoCaller
       THEN /\ timer' = ClearTimeout(timer, r.woken)
            /\ acq' = Resolve(acq, r.woken, "true")
            /\ woken' = [woken EXCEPT ![r.woken] = TRUE]
            /\ grants' = [grants EXCEPT ![r.woken] = @ + 1]
       ELSE UNCHANGED <<timer, acq, woken, grants>>

\* the holder of a release callback invokes it (for the first time)
ReleaseSlot(c) ==
    /\ slotPc[c] = "holding"
    /\ releases[c] = 0
    /\ ReleaseCallback(c)
    /\ slotPc' = [slotPc EXCEPT ![c] = "released"]
    /\ UNCHANGED nonGateVars
    /\ UNCHANGED <<maxConcurrentRenders, totalRenderCount, renderTimeouts, slotMode, outcome,
                   ticket, nextTicket, timerFired, fnRuns>>

\* withRenderSlot: fn settles (ok: it resolved, otherwise it threw);
\* the finally block releases and the result of fn propagates
FnSettleNoFinally(c, ok) ==
    /\ slotPc[c] = "running"
    /\ slotPc' = [slotPc EXCEPT ![c] = "done"]
    /\ outcome' = [outcome EXCEPT ![c] = IF ok THEN "value" ELSE "fnError"]
    /\ IF ok THEN ReleaseCallback(c)
       ELSE UNCHANGED <<activeRenderCount, releases, permits, waiting, timer, acq, woken, grants>>
    /\ UNCHANGED nonGateVars
    /\ UNCHANGED <<maxConcurrentRenders, totalRenderCount, renderTimeouts, slotMode,
                   ticket, nextTicket, timerFired, fnRuns>>
FnSettle(c, ok) ==
    /\ slotPc[c] = "running"
    /\ slotPc' = [slotPc EXCEPT ![c] = "done"]
    /\ outcome' = [outcome EXCEPT ![c] = IF ok THEN "value" ELSE "fnError"]
    /\ ReleaseCallback(c)
    /\ UNCHANGED nonGateVars
    /\ UNCHANGED <<maxConcurrentRenders, totalRenderCount, renderTimeouts, slotMode,
                   ticket, nextTicket, timerFired, fnRuns>>

NextGate ==
    \/ \E c \in Callers, m \in {"direct", "with"} : AcquireRenderSlot(c, m)
    \/ \E c \in Callers : AcquireTimeout(c)
    \/ \E c \in Callers : AcquireResume(c)
    \/ \E c \in Callers : ReleaseSlot(c)
    \/ \E c \in Callers, ok \in BOOLEAN : FnSettle(c, ok)

SpecGate == Init /\ [][NextGate]_vars

(* ----------------------- reconfiguring the gate ----------------------- *)

\* an acquireRenderSlot / withRenderSlot call has started and has not finished:
\* it is waiting for a permit, holds a release callback or runs fn
SlotInFlight == \E c \in Callers : slotPc[c] \in {"acquiring", "holding", "running"}

\* the callers in a wait queue
Queued(w) == {w[i] : i \in 1..Len(w)}

\* configureConcurrency({maxConcurrentRenders: m}), lines 41-47: only the
\* config object is replaced, renderSemaphore is left as it is
ConfigureConcurrency(m) ==
    /\ configures < MaxConfigures
    /\ configures' = configures + 1
    /\ maxConcurrentRenders' = m
    /\ unsafeAdmin' = (unsafeAdmin \/ SlotInFlight)
    /\ UNCHANGED <<resets, orphaned>>
    /\ UNCHANGED nonGateAdminVars
    /\ UNCHANGED <<permits, waiting, activeRenderCount, totalRenderCount, renderTimeouts,
                   slotPc, slotMode, acq, timer, outcome, ticket, nextTicket, timerFired,
                   woken, grants, fnRuns, releases>>

\* resetRenderSemaphore(), lines 142-145: a new Semaphore with
\* config.maxConcurrentRenders permits and an empty queue replaces the old
\* one, and activeRenderCount is set to 0.  The acquires queued on the old
\* semaphore stay pending until their timers fire; release callbacks handed
\* out earlier read the renderSemaphore variable when they are invoked, so
\* they release into the new semaphore.
ResetRenderSemaphore ==
    /\ resets < MaxResets
    /\ resets' = resets + 1
    /\ permits' = maxConcurrentRenders
    /\ waiting' = <<>>
    /\ activeRenderCount' = 0
    /\ timer' = OrphanTimers(timer, waiting)
    /\ orphaned' = orphaned \cup Queued(waiting)
    /\ unsafeAdmin' = (unsafeAdmin \/ SlotInFlight)
    /\ UNCHANGED configures
    /\ UNCHANGED nonGateAdminVars
    /\ UNCHANGED <<maxConcurrentRenders, totalRenderCount, renderTimeouts, slotPc, slotMode,
                   acq, outcome, ticket, nextTicket, timerFired, woken, grants, fnRuns,
                   releases>>

\* the holder of a release callback invokes it once more (lines 172-180: the
\* closure keeps no record of having been invoked)
ReleaseAgain(c) ==
    /\ slotPc[c] = "released"
    /\ releases[c] < MaxReleases
    /\ ReleaseCallback(c)
    /\ UNCHANGED nonGateVars
    /\ UNCHANGED <<maxConcurrentRenders, totalRenderCount, renderTimeouts, slotPc, slotMode,
                   outcome, ticket, nextTicket, timerFired, fnRuns>>

NextGateAdmin ==
    \/ NextGate
    \/ \E m \in 1..MaxRenders : ConfigureConcurrency(m)
    \/ ResetRenderSemaphore
    \/ \E c \in Callers : ReleaseAgain(c)

SpecGateAdmin == Init /\ [][NextGateAdmin]_vars

\* a timer that is armed fires, and a call whose acquire has settled resumes
FairnessGate ==
    /\ \A c \in Callers : WF_vars(AcquireTimeout(c))
    /\ \A c \in Callers : WF_vars(AcquireResume(c))

\* the gate with resetRenderSemaphore calls only, where termination is explored
NextGateReset ==
    \/ NextGate
    \/ ResetRenderSemaphore

SpecGateResetFair == Init /\ [][NextGateReset]_vars /\ FairnessGate

(* --------------------------- browser manager -------------------------- *)

\* isBrowserRunning / the test of getBrowser line 52: browserInstance?.isConnected()
InstanceConnected(inst, conn) == inst # Null /\ conn[inst] = "connected"
IsBrowserRunning == InstanceConnected(browserInstance, connected)

LaunchCount == Cardinality({l \in Launches : launch[l] # "unused"})
Settled(l) == launch[l] \in {"fulfilled", "rejected"}
\* value a settled launch promise delivers
LaunchValue(l) == IF launch[l] = "fulfilled" THEN l ELSE Rejected

\* getBrowser, line 57: a launch is already in progress
LaunchInProgressIgnored(promise) == FALSE
LaunchInProgress(promise) == promise # Null

\* a "disconnected" event of browser b that arrives while inst, another
\* browser that is connected, is the singleton
StaleNotice(stale, inst, conn, b) ==
    IF inst # Null /\ inst # b /\ conn[inst] = "connected" THEN stale \cup {b} ELSE stale

\* the "disconnected" handler installed by launchBrowser (lines 93-97)
DisconnectedHandlerAlways(inst, b) == Null
DisconnectedHandlerKeep(inst, b) == inst
DisconnectedHandler(inst, b) == IF inst = b THEN Null ELSE inst

\* getBrowser, lines 64-69: the finally block clears the launch promise
\* whether the launch succeeded or failed
PromiseAfterLaunchNoFinally(promise, ok) == IF ok THEN Null ELSE promise
PromiseAfterLaunch(promise, ok) == Null

\* closeBrowser, lines 109-113: a rejected launch is caught and ignored;
\* st is the state of the awaited launch
AwaitLaunchThrowsOnReject(st) == st = "rejected"
AwaitLaunchThrows(st) == FALSE

\* closeBrowser, lines 117-118: the reference is cleared before the close
ClearedInstance(inst) == Null

\* closeBrowser, lines 120-125: a failing browser.close() is caught and logged
CloseResultRethrow(ok) == IF ok THEN "returned" ELSE "threw"
CloseResult(ok) == "returned"

\* getBrowser() is called: return the connected singleton, join the launch in
\* progress, or start a launch
GetBrowserCall(g) ==
    /\ getPc[g] = "idle"
    /\ getAfterClose' = [k \in Closers |->
                           getAfterClose[k] \/ closePc[k] # "idle"]
    /\ IF InstanceConnected(browserInstance, connected)
       THEN /\ getPc' = [getPc EXCEPT ![g] = "done"]
            /\ getResult' = [getResult EXCEPT ![g] = browserInstance]
            /\ UNCHANGED <<browserLaunchPromise, launch, getOn>>
       ELSE IF LaunchInProgress(browserLaunchPromise)
       THEN /\ getPc' = [getPc EXCEPT ![g] = "joined"]
            /\ getOn' = [getOn EXCEPT ![g] = browserLaunchPromise]
            /\ UNCHANGED <<browserLaunchPromise, launch, getResult>>
       ELSE /\ LaunchCount < MaxLaunches
            /\ launch' = [launch EXCEPT ![LaunchCount + 1] = "pending"]
            /\ browserLaunchPromise' = LaunchCount + 1
            /\ getPc' = [getPc EXCEPT ![g] = "launching"]
            /\ getOn' = [getOn EXCEPT ![g] = LaunchCount + 1]
            /\ UNCHANGED getResult
    /\ UNCHANGED <<browserInstance, connected, closePc, closeOn, closeRef, closeOutcome,
                   closeThrew, staleNotified>>

\* a direct getBrowser() call; the calls are numbered in the order they are made
GetBrowser(g) ==
    /\ \A h \in DirectGetters : h < g => getPc[h] # "idle"
    /\ GetBrowserCall(g)
    /\ UNCHANGED nonBrowserVars

\* chromium.launch settles; launchBrowser installs the disconnect handler and
\* returns, and the getBrowser call that started the launch, first in line on
\* the launch promise, stores the browser and clears the promise (lines 65-68)
LaunchSettle(l, ok) ==
    /\ launch[l] = "pending"
    /\ launch' = [launch EXCEPT ![l] = IF ok THEN "fulfilled" ELSE "rejected"]
    /\ connected' = IF ok THEN [connected EXCEPT ![l] = "connected"] ELSE connected
    /\ browserInstance' = IF ok THEN l ELSE browserInstance
    /\ browserLaunchPromise' = PromiseAfterLaunch(browserLaunchPromise, ok)
    /\ getPc' = [g \in Getters |->
                   IF getPc[g] = "launching" /\ getOn[g] = l THEN "done" ELSE getPc[g]]
    /\ getResult' = [g \in Getters |->
                       IF getPc[g] = "launching" /\ getOn[g] = l
                       THEN (IF ok THEN l ELSE Rejected) ELSE getResult[g]]
    /\ UNCHANGED <<getOn, closePc, closeOn, closeRef, closeOutcome, getAfterClose,
                   closeThrew, staleNotified>>
    /\ UNCHANGED nonBrowserVars

\* a getBrowser call that returned the launch promise settles with its outcome
JoinResume(g) ==
    /\ getPc[g] = "joined"
    /\ Settled(getOn[g])
    /\ getPc' = [getPc EXCEPT ![g] = "done"]
    /\ getResult' = [getResult EXCEPT ![g] = LaunchValue(getOn[g])]
    /\ UNCHANGED <<browserInstance, browserLaunchPromise, launch, connected, getOn,
                   closePc, closeOn, closeRef, closeOutcome, getAfterClose, closeThrew,
                   staleNotified>>
    /\ UNCHANGED nonBrowserVars

\* browser b disconnects (crash, or the end of a close): the handler runs
Disconnect(b) ==
    /\ connected[b] = "connected"
    /\ connected' = [connected EXCEPT ![b] = "disconnected"]
    /\ browserInstance' = DisconnectedHandler(browserInstance, b)
    /\ staleNotified' = StaleNotice(staleNotified, browserInstance, connected, b)
    /\ UNCHANGED <<browserLaunchPromise, launch, getPc, getOn, getResult,
                   closePc, closeOn, closeRef, closeOutcome, getAfterClose, closeThrew>>
    /\ UNCHANGED nonBrowserVars

\* closeBrowser, lines 116-126 up to `await browser.close()`
CloseInstance(k) ==
    IF browserInstance # Null
    THEN /\ closeRef' = [closeRef EXCEPT ![k] = browserInstance]
         /\ browserInstance' = ClearedInstance(browserInstance)
         /\ closePc' = [closePc EXCEPT ![k] = "closing"]
         /\ UNCHANGED closeOutcome
    ELSE /\ closePc' = [closePc EXCEPT ![k] = "done"]
         /\ closeOutcome' = [closeOutcome EXCEPT ![k] = "returned"]
         /\ UNCHANGED <<closeRef, browserInstance>>

\* closeBrowser() is called: what it does to the browser manager
CloseBrowserCall(k) ==
    /\ closePc[k] = "idle"
    /\ IF browserLaunchPromise # Null
       THEN /\ closePc' = [closePc EXCEPT ![k] = "awaitLaunch"]
            /\ closeOn' = [closeOn EXCEPT ![k] = browserLaunchPromise]
            /\ UNCHANGED <<browserInstance, closeRef, closeOutcome>>
       ELSE /\ CloseInstance(k)
            /\ UNCHANGED closeOn
    /\ UNCHANGED <<browserLaunchPromise, launch, connected, getPc, getOn, getResult,
                   getAfterClose, closeThrew, staleNotified>>

\* a direct closeBrowser() call; the calls are numbered in the order they are made
CloseBrowser(k) ==
    /\ \A j \in Closers : j < k => closePc[j] # "idle"
    /\ CloseBrowserCall(k)
    /\ UNCHANGED nonBrowserVars

\* closeBrowser resumes after `await browserLaunchPromise` (failure ignored)
CloseAfterLaunch(k) ==
    /\ closePc[k] = "awaitLaunch"
    /\ Settled(closeOn[k])
    /\ IF AwaitLaunchThrows(launch[closeOn[k]])
       THEN /\ closePc' = [closePc EXCEPT ![k] = "done"]
            /\ closeOutcome' = [closeOutcome EXCEPT ![k] = "threw"]
            /\ UNCHANGED <<closeRef, browserInstance>>
       ELSE CloseInstance(k)
    /\ UNCHANGED <<browserLaunchPromise, launch, connected, getPc, getOn, getResult,
                   closeOn, getAfterClose, closeThrew, staleNotified>>
    /\ UNCHANGED nonBrowserVars

\* browser.close() settles (ok: the browser is gone; otherwise it threw)
CloseSettle(k, ok) ==
    /\ closePc[k] = "closing"
    /\ closePc' = [closePc EXCEPT ![k] = "done"]
    /\ closeOutcome' = [closeOutcome EXCEPT ![k] = CloseResult(ok)]
    /\ closeThrew' = [closeThrew EXCEPT ![k] = ~ok]
    /\ IF ok /\ connected[closeRef[k]] = "connected"
       THEN /\ connected' = [connected EXCEPT ![closeRef[k]] = "disconnected"]
            /\ browserInstance' = DisconnectedHandler(browserInstance, closeRef[k])
            /\ staleNotified' =
                   StaleNotice(staleNotified, browserInstance, connected, closeRef[k])
       ELSE UNCHANGED <<connected, browserInstance, staleNotified>>
    /\ UNCHANGED <<browserLaunchPromise, launch, getPc, getOn, getResult,
                   closeOn, closeRef, getAfterClose>>
    /\ UNCHANGED nonBrowserVars

NextBrowser ==
    \/ \E g \in DirectGetters : GetBrowser(g)
    \/ \E l \in Launches, ok \in BOOLEAN : LaunchSettle(l, ok)
    \/ \E g \in Getters : JoinResume(g)
    \/ \E b \in Launches : Disconnect(b)
    \/ \E k \in Closers : CloseBrowser(k)
    \/ \E k \in Closers : CloseAfterLaunch(k)
    \/ \E k \in Closers, ok \in BOOLEAN : CloseSettle(k, ok)

\* the browser manager does not depend on the gate's configuration
InitBrowserSpec == Init /\ maxConcurrentRenders = 1

SpecBrowser == InitBrowserSpec /\ [][NextBrowser]_vars

(* --------------------- validation of the tool input -------------------- *)

\* validation.ts lines 11 and 17
VALID_PADDINGS == {16, 32, 64, 128}
VALID_EXPORT_SIZES == {2, 4, 6}

\* the keys of THEMES and LANGUAGES (validation.ts lines 5-6), two of each
\* stand for the tables
ThemeTable == {"vercel", "supabase"}
LanguageTable == {"python", "typescript"}
\* `id in TABLE` (lines 27, 37) is also true of the property names every
\* object inherits from Object.prototype; "constructor" stands for them
InheritedKeys == {"constructor"}

\* the phrases createCodeImage looks for in the error text (lines 272-283)
Phrases == {"Code is required", "Invalid theme ID", "Invalid language ID",
            "Invalid padding", "Invalid export size", "Invalid highlighted lines"}

\* the values explored for each parameter.  A string value either is one of
\* the phrases or contains none of them.  A line number counts halves, so
\* that 3 is the non-integer 1.5 and 2 is line 1.
CodeValues == {"", "let x = 1", "<not a string>"}
ThemeValues == {Undefined, "", "vercel", "not-a-real-theme", "constructor",
                "Code is required"}
LanguageValues == {Undefined, "python", "klingon", "Invalid theme ID"}
PaddingValues == {UndefinedNumber, 0, 20, 64}
ExportSizeValues == {UndefinedNumber, 2, 3, 6}
HalfValues == {-2, 0, 2, 3}
LineArrays == UNION {[1..n -> HalfValues] : n \in 0..MaxLines}
HighlightValues == {[defined |-> FALSE, lines |-> <<>>]}
                   \cup {[defined |-> TRUE, lines |-> w] : w \in LineArrays}

Inputs == [code : CodeValues, theme : ThemeValues, language : LanguageValues,
           padding : PaddingValues, exportSize : ExportSizeValues,
           highlightedLines : HighlightValues]

\* isValidCode, lines 66-68
IsValidCode(code) == code # "<not a string>" /\ code # ""
\* isValidThemeId, lines 23-28
IsValidThemeId(id) == id # "" /\ id \in ThemeTable \cup InheritedKeys
\* isValidLanguageId, lines 33-38
IsValidLanguageId(id) == id # "" /\ id \in LanguageTable \cup InheritedKeys
\* isValidPadding, lines 43-45, and isValidExportSize, lines 50-52
IsValidPadding(value) == value \in VALID_PADDINGS
IsValidExportSize(value) == value \in VALID_EXPORT_SIZES
\* isValidHighlightedLines, lines 57-62: every line is an integer above 0
IsValidHighlightedLines(lines) ==
    \A k \in 1..Len(lines) : lines[k] % 2 = 0 /\ lines[k] > 0

\* an error text: the fixed wording it starts with and the parameter value
\* quoted in it ("" where no string is quoted)
ErrorText(phrase, quoted) == [valid |-> FALSE, phrase |-> phrase, quoted |-> quoted]
NoError == [valid |-> TRUE, phrase |-> "", quoted |-> ""]

\* validateCodeImageParams, lines 82-139
ValidateCodeImageParams(params) ==
    IF ~IsValidCode(params.code)
    THEN ErrorText("Code is required", "")
    ELSE IF params.theme # Undefined /\ ~IsValidThemeId(params.theme)
    THEN ErrorText("Invalid theme ID", params.theme)
    ELSE IF params.language # Undefined /\ ~IsValidLanguageId(params.language)
    THEN ErrorText("Invalid language ID", params.language)
    ELSE IF params.padding # UndefinedNumber /\ ~IsValidPadding(params.padding)
    THEN ErrorText("Invalid padding", "")
    ELSE IF params.exportSize # UndefinedNumber /\ ~IsValidExportSize(params.exportSize)
    THEN ErrorText("Invalid export size", "")
    ELSE IF params.highlightedLines.defined
            /\ ~IsValidHighlightedLines(params.highlightedLines.lines)
    THEN ErrorText("Invalid highlighted lines", "")
    ELSE NoError

\* String.prototype.includes on an error text
Includes(text, phrase) == text.phrase = phrase \/ text.quoted = phrase

\* createCodeImage lines 269-284: the errorCode for a validation error
ErrorCodeOfNoLinesBranch(text) ==
    IF Includes(text, "Code is required") THEN "INVALID_CODE"
    ELSE IF Includes(text, "Invalid theme ID") THEN "INVALID_THEME"
    ELSE IF Includes(text, "Invalid language ID") THEN "INVALID_LANGUAGE"
    ELSE IF Includes(text, "Invalid padding") THEN "INVALID_PADDING"
    ELSE IF Includes(text, "Invalid export size") THEN "INVALID_EXPORT_SIZE"
    ELSE "VALIDATION_ERROR"
ErrorCodeOf(text) ==
    IF Includes(text, "Code is required") THEN "INVALID_CODE"
    ELSE IF Includes(text, "Invalid theme ID") THEN "INVALID_THEME"
    ELSE IF Includes(text, "Invalid language ID") THEN "INVALID_LANGUAGE"
    ELSE IF Includes(text, "Invalid padding") THEN "INVALID_PADDING"
    ELSE IF Includes(text, "Invalid export size") THEN "INVALID_EXPORT_SIZE"
    ELSE IF Includes(text, "Invalid highlighted lines") THEN "INVALID_HIGHLIGHTED_LINES"
    ELSE "VALIDATION_ERROR"

\* createCodeImage lines 258-291: "valid" if the call goes on, else the
\* errorCode of the failure result it returns
ValidationOutcome(input) ==
    LET validation == ValidateCodeImageParams(input)
    IN  IF validation.valid THEN "valid" ELSE ErrorCodeOf(validation)

\* what validation can answer over all the inputs explored
ValidationOutcomes == {ValidationOutcome(input) : input \in Inputs}

\* createCodeImage(valInput) runs its validation (lines 258-291)
ValidateCall ==
    /\ valResult = "none"
    /\ valInput \in Inputs
    /\ valResult' = ValidationOutcome(valInput)
    /\ UNCHANGED valInput
    /\ UNCHANGED nonValVars

NextValidate == ValidateCall

\* every input explored is the argument of one call
InitValidate ==
    /\ InitResources
    /\ maxConcurrentRenders = 1
    /\ valInput \in Inputs
    /\ valResult = "none"
    /\ InitFit

SpecValidate == InitValidate /\ [][NextValidate]_vars

(* ------------------- create_code_image tool handler ------------------- *)

\* what the try block of createCodeImage can catch, by what the catch block
\* looks at: a ScreenshotError (given by its code), an Error whose message
\* contains "timed out", another Error, a value that is no Error
ScreenshotErrorCodes == {"PAGE_TIMEOUT", "PAGE_CRASH", "CAPTURE_FAILED", "TIMEOUT"}
\* generateCodeFrameHtml, getBrowser and the page operations of
\* captureScreenshotFullContent throw errors that are no ScreenshotError
RawErrors == {"timedOut", "other", "notAnError"}

\* createCodeImage lines 351-374: the errorCode of the result the catch block
\* returns
CatchResultRethrow(e) ==
    IF e \in ScreenshotErrorCodes THEN e
    ELSE IF e = "timedOut" THEN "TIMEOUT"
    ELSE "threw"
CatchResult(e) ==
    IF e \in ScreenshotErrorCodes THEN e
    ELSE IF e = "timedOut" THEN "TIMEOUT"
    ELSE "GENERATION_FAILED"

\* createCodeImage lines 269-291: a validation failure returns at once
AfterValidationGoesOn(verdict) == "html"
AfterValidation(verdict) == IF verdict = "valid" THEN "html" ELSE "done"

\* createCodeImage(input) is called: validateCodeImageParams and, for an input
\* it lets through, the defaults and detectLanguage, which catches its own
\* errors (lines 258-309); verdict is what validation answers for the input.
\* The requests are numbered in the order they arrive.
CreateCodeImage(r, verdict) ==
    /\ reqPc[r] = "idle"
    /\ \A q \in Requests : q < r => reqPc[q] # "idle"
    /\ reqPc' = [reqPc EXCEPT ![r] = AfterValidation(verdict)]
    /\ reqResult' = [reqResult EXCEPT ![r] = IF verdict = "valid" THEN @ ELSE verdict]
    /\ UNCHANGED <<reqTimer, capPc, capValue, ctxState, pageState>>
    /\ UNCHANGED nonToolVars

\* generateCodeFrameHtml settles (lines 312-336): on success the timeout timer
\* is armed and captureScreenshotFullContent is called, which calls getBrowser
HtmlSettle(r, e) ==
    /\ reqPc[r] = "html"
    /\ IF e = "none"
       THEN /\ reqPc' = [reqPc EXCEPT ![r] = "capture"]
            /\ reqTimer' = [reqTimer EXCEPT ![r] = TRUE]
            /\ capPc' = [capPc EXCEPT ![r] = "getBrowser"]
            /\ GetBrowserCall(ReqGetter(r))
            /\ UNCHANGED reqResult
       ELSE /\ reqPc' = [reqPc EXCEPT ![r] = "done"]
            /\ reqResult' = [reqResult EXCEPT ![r] = CatchResult(e)]
            /\ UNCHANGED <<reqTimer, capPc, browserVars>>
    /\ UNCHANGED <<capValue, ctxState, pageState>>
    /\ UNCHANGED <<gateVars, poolVars, shotVars, valVars, sigVars, adminVars, leakVars, fitVars>>

\* captureScreenshotFullContent resumes after `await getBrowser()` (line 339)
\* and calls browser.newContext, or rejects with the launch failure
CaptureGotBrowser(r) ==
    /\ capPc[r] = "getBrowser"
    /\ getPc[ReqGetter(r)] = "done"
    /\ IF getResult[ReqGetter(r)] = Rejected
       THEN /\ capPc' = [capPc EXCEPT ![r] = "settled"]
            /\ \E e \in RawErrors : capValue' = [capValue EXCEPT ![r] = e]
       ELSE /\ capPc' = [capPc EXCEPT ![r] = "newContext"]
            /\ UNCHANGED capValue
    /\ UNCHANGED <<reqPc, reqResult, reqTimer, ctxState, pageState>>
    /\ UNCHANGED nonToolVars

\* browser.newContext settles (line 340); context.newPage is called next
NewContextSettle(r, e) ==
    /\ capPc[r] = "newContext"
    /\ IF e = "none"
       THEN /\ capPc' = [capPc EXCEPT ![r] = "newPage"]
            /\ ctxState' = [ctxState EXCEPT ![r] = "open"]
            /\ UNCHANGED capValue
       ELSE /\ capPc' = [capPc EXCEPT ![r] = "settled"]
            /\ capValue' = [capValue EXCEPT ![r] = e]
            /\ UNCHANGED ctxState
    /\ UNCHANGED <<reqPc, reqResult, reqTimer, pageState>>
    /\ UNCHANGED nonToolVars

\* context.newPage settles (line 347, outside the try block)
NewPageSettle(r, e) ==
    /\ capPc[r] = "newPage"
    /\ IF e = "none"
       THEN /\ capPc' = [capPc EXCEPT ![r] = "work"]
            /\ pageState' = [pageState EXCEPT ![r] = "open"]
            /\ UNCHANGED capValue
       ELSE /\ capPc' = [capPc EXCEPT ![r] = "settled"]
            /\ capValue' = [capValue EXCEPT ![r] = e]
            /\ UNCHANGED pageState
    /\ UNCHANGED <<reqPc, reqResult, reqTimer, ctxState>>
    /\ UNCHANGED nonToolVars

\* the try block (load, measure, resize, settle delay, snapshot; lines 350-390)
\* ends with a buffer or an error; the finally block calls page.close
WorkSettle(r, e) ==
    /\ capPc[r] = "work"
    /\ capPc' = [capPc EXCEPT ![r] = "closePage"]
    /\ capValue' = [capValue EXCEPT ![r] = IF e = "none" THEN "buffer" ELSE e]
    /\ UNCHANGED <<reqPc, reqResult, reqTimer, ctxState, pageState>>
    /\ UNCHANGED nonToolVars

\* page.close settles (line 393): context.close follows, unless page.close
\* threw, which the catch swallows
ClosePageSettle(r, ok) ==
    /\ capPc[r] = "closePage"
    /\ IF ok
       THEN /\ capPc' = [capPc EXCEPT ![r] = "closeContext"]
            /\ pageState' = [pageState EXCEPT ![r] = "closed"]
       ELSE /\ capPc' = [capPc EXCEPT ![r] = "settled"]
            /\ pageState' = [pageState EXCEPT ![r] = "closeFailed"]
    /\ UNCHANGED <<reqPc, reqResult, reqTimer, capValue, ctxState>>
    /\ UNCHANGED nonToolVars

\* context.close settles (line 394); the capture settles with its own result
CloseContextSettle(r, ok) ==
    /\ capPc[r] = "closeContext"
    /\ capPc' = [capPc EXCEPT ![r] = "settled"]
    /\ ctxState' = [ctxState EXCEPT ![r] = IF ok THEN "closed" ELSE "closeFailed"]
    /\ UNCHANGED <<reqPc, reqResult, reqTimer, capValue, pageState>>
    /\ UNCHANGED nonToolVars

\* the GENERATION_TIMEOUT timer fires before the capture settled (lines 325-329,
\* 361-367); the capture itself keeps running.  Once the capture has settled,
\* createCodeImage resumes before any timer can fire.
GenerationTimeout(r) ==
    /\ reqTimer[r]
    /\ reqPc[r] = "capture"
    /\ capPc[r] # "settled"
    /\ reqTimer' = [reqTimer EXCEPT ![r] = FALSE]
    /\ reqPc' = [reqPc EXCEPT ![r] = "done"]
    /\ reqResult' = [reqResult EXCEPT ![r] = CatchResult("timedOut")]
    /\ UNCHANGED <<capPc, capValue, ctxState, pageState>>
    /\ UNCHANGED nonToolVars

\* createCodeImage resumes after the race with the capture's outcome
\* (lines 336-350 and the catch, lines 351-374)
CaptureDone(r) ==
    /\ reqPc[r] = "capture"
    /\ capPc[r] = "settled"
    /\ reqPc' = [reqPc EXCEPT ![r] = "done"]
    /\ reqResult' = [reqResult EXCEPT ![r] =
                       IF capValue[r] = "buffer" THEN "success"
                                                 ELSE CatchResult(capValue[r])]
    /\ UNCHANGED <<reqTimer, capPc, capValue, ctxState, pageState>>
    /\ UNCHANGED nonToolVars

NextTool ==
    \/ \E r \in Requests, verdict \in ValidationOutcomes : CreateCodeImage(r, verdict)
    \/ \E r \in Requests, e \in RawErrors \cup {"none"} : HtmlSettle(r, e)
    \/ \E r \in Requests : CaptureGotBrowser(r)
    \/ \E r \in Requests, e \in RawErrors \cup {"none"} : NewContextSettle(r, e)
    \/ \E r \in Requests, e \in RawErrors \cup {"none"} : NewPageSettle(r, e)
    \/ \E r \in Requests, e \in RawErrors \cup {"none"} : WorkSettle(r, e)
    \/ \E r \in Requests, ok \in BOOLEAN : ClosePageSettle(r, ok)
    \/ \E r \in Requests, ok \in BOOLEAN : CloseContextSettle(r, ok)
    \/ \E r \in Requests : GenerationTimeout(r)
    \/ \E r \in Requests : CaptureDone(r)
    \/ \E l \in Launches, ok \in BOOLEAN : LaunchSettle(l, ok)
    \/ \E g \in Getters : JoinResume(g)
    \/ \E b \in Launches : Disconnect(b)

SpecTool == Init /\ [][NextTool]_vars

\* what the event loop guarantees: an armed timer fires and the continuation of
\* a settled promise runs.  Operations of the browser and the HTML generation
\* are under no such guarantee: they may hang.
FairnessTool ==
    /\ \A r \in Requests : WF_vars(GenerationTimeout(r))
    /\ \A r \in Requests : WF_vars(CaptureDone(r))
    /\ \A r \in Requests : WF_vars(CaptureGotBrowser(r))
    /\ \A g \in Getters : WF_vars(JoinResume(g))

SpecToolFair == Init /\ [][NextTool]_vars /\ FairnessTool


(* ------------------------------ page pool ------------------------------ *)

Range(w) == {w[i] : i \in 1..Len(w)}
Top(w) == w[Len(w)]
Pop(w) == SubSeq(w, 1, Len(w) - 1)

\* pages a getPage or releasePage call is awaiting a step on
InFlight == {p \in Pages : pageOp[p] # "none"}
\* numbers that stand for no page object
Unused == {p \in Pages : poolPage[p] = "none" /\ pageOp[p] = "none"}
FreshPage == CHOOSE p \in Unused : \A q \in Unused : p <= q

\* A page object nothing refers to any more (no collection, no call in
\* flight, no caller, not closePagePool's array) is garbage: its number is
\* free again.  pp is the page table the step would otherwise leave.
Gone(p) ==
    /\ p \notin pagesInUse'
    /\ p \notin Range(availablePages')
    /\ pageOp'[p] = "none"
    /\ held'[p] = 0
    /\ p # poolClosePage'
    /\ p \notin poolCloseTodo'
    /\ p \notin poolCloseSnapshot'
Collected(pp) == [p \in Pages |-> IF Gone(p) THEN "none" ELSE pp[p]]

\* The context of a page goes with the page object: the pool keeps it in the
\* availablePages entry or reaches it through page.context().  cc is the
\* context table the step would otherwise leave.  A context that is still
\* open when the last reference to its page goes can no longer be closed by
\* the pool.
TrackContexts(cc) ==
    /\ poolCtx' = [p \in Pages |-> IF Gone(p) THEN "none" ELSE cc[p]]
    /\ ctxLost' = (ctxLost \/ \E p \in Pages : Gone(p) /\ cc[p] = "open")

\* a getPage, releasePage or closePagePool call that has to await starts;
\* one that starts while another is in flight counts as an overlap, of
\* which at most `limit` are explored
StartCall(limit) ==
    IF InFlight # {} \/ poolClosePc \notin {"idle", "done"}
    THEN overlaps < limit /\ overlaps' = overlaps + 1
    ELSE UNCHANGED overlaps

\* getPage, lines 61-62: reuse a pooled page if there is one
GetPagePathAlwaysCreate(avail) == "create"
GetPagePath(avail) == IF Len(avail) > 0 THEN "reuse" ELSE "create"

\* releasePage, line 97
CheckedOutAlways(inUse, p) == TRUE
CheckedOut(inUse, p) == p \in inUse

\* releasePage, line 104: page.isClosed()
IsClosedNever(pp, p) == FALSE
IsClosed(pp, p) == pp[p] = "closed"

\* releasePage, line 117
PoolHasRoomOffByOne(avail) == Len(avail) <= MAX_POOL_SIZE
PoolHasRoom(avail) == Len(avail) < MAX_POOL_SIZE

\* releasePage, lines 109-126: whatever the try block throws is caught and
\* logged; the result says how releasePage ends
ReleaseCatchRethrow(ok) == IF ok THEN "none" ELSE "threw"
ReleaseCatch(ok) == IF ok THEN "none" ELSE "caught"

\* getPage() is called (lines 54-73) with at most `limit` page objects
\* alive: it pops a pooled page and awaits setViewportSize, or calls
\* getBrowser for a new page
GetPageCall(limit, overlapLimit) ==
    /\ StartCall(overlapLimit)
    /\ IF GetPagePath(availablePages) = "reuse"
       THEN /\ availablePages' = Pop(availablePages)
            /\ pageOp' = [pageOp EXCEPT ![Top(availablePages)] = "viewport"]
            /\ UNCHANGED browserVars
       ELSE /\ Unused # {}
            /\ FreshPage <= limit
            /\ pageOp' = [pageOp EXCEPT ![FreshPage] = "getBrowser"]
            /\ GetBrowserCall(PoolGetter(FreshPage))
            /\ UNCHANGED availablePages
    /\ UNCHANGED <<pagesInUse, poolPage, held, relFull, strayReleases,
                   poolClosePc, poolClosePage, poolCloseTodo, poolCloseSnapshot,
                   poolCloseMissed>>
    /\ relOutcome' = "none"
    /\ UNCHANGED <<gateVars, toolVars, shotVars, valVars, sigVars, adminVars, leakVars, fitVars>>

GetPage == GetPageCall(MaxPages, MaxOverlaps)

\* getPage resumes after `await getBrowser()` (line 73) and calls
\* browser.newContext, or rejects with the launch failure
PoolGotBrowser(p) ==
    /\ pageOp[p] = "getBrowser"
    /\ getPc[PoolGetter(p)] = "done"
    /\ pageOp' = [pageOp EXCEPT ![p] = IF getResult[PoolGetter(p)] = Rejected
                                       THEN "none" ELSE "newContext"]
    /\ getPc' = [getPc EXCEPT ![PoolGetter(p)] = "idle"]
    /\ getOn' = [getOn EXCEPT ![PoolGetter(p)] = Null]
    /\ getResult' = [getResult EXCEPT ![PoolGetter(p)] = Null]
    /\ UNCHANGED <<browserInstance, browserLaunchPromise, launch, connected,
                   closePc, closeOn, closeRef, closeOutcome, getAfterClose, closeThrew,
                   staleNotified>>
    /\ UNCHANGED <<availablePages, pagesInUse, poolPage, held, relFull,
                   strayReleases, overlaps, poolClosePc, poolClosePage, poolCloseTodo,
                   poolCloseSnapshot, poolCloseMissed>>
    /\ relOutcome' = "none"
    /\ UNCHANGED <<gateVars, toolVars, shotVars, valVars, sigVars, adminVars, leakVars, fitVars>>

\* browser.newContext settles (lines 74-84); on failure getPage rejects
PoolNewContextSettle(p, ok) ==
    /\ pageOp[p] = "newContext"
    /\ pageOp' = [pageOp EXCEPT ![p] = IF ok THEN "newPage" ELSE "none"]
    /\ UNCHANGED <<availablePages, pagesInUse, poolPage, held, relFull,
                   strayReleases, overlaps, poolClosePc, poolClosePage, poolCloseTodo,
                   poolCloseSnapshot, poolCloseMissed>>
    /\ relOutcome' = "none"
    /\ UNCHANGED nonPoolLeakVars
    /\ UNCHANGED <<crashes, quietClose>>
    /\ TrackContexts([poolCtx EXCEPT ![p] = IF ok THEN "open" ELSE @])

\* context.newPage settles (lines 84-87): the new page is marked in use and
\* returned; on failure getPage rejects
PoolNewPageSettle(p, ok) ==
    /\ pageOp[p] = "newPage"
    /\ pageOp' = [pageOp EXCEPT ![p] = "none"]
    /\ IF ok
       THEN /\ poolPage' = [poolPage EXCEPT ![p] = "open"]
            /\ pagesInUse' = pagesInUse \cup {p}
            /\ held' = [held EXCEPT ![p] = @ + 1]
       ELSE UNCHANGED <<poolPage, pagesInUse, held>>
    /\ UNCHANGED <<availablePages, relFull, strayReleases, overlaps, poolClosePc,
                   poolClosePage, poolCloseTodo, poolCloseSnapshot, poolCloseMissed>>
    /\ relOutcome' = "none"
    /\ UNCHANGED nonPoolLeakVars
    /\ UNCHANGED <<crashes, quietClose>>
    /\ TrackContexts(poolCtx)

\* page.setViewportSize settles on the reuse path (lines 66-69): the page is
\* marked in use and returned; on failure getPage rejects and the page is
\* left in neither collection
ViewportSettle(p, ok) ==
    /\ pageOp[p] = "viewport"
    /\ ok => poolPage[p] = "open"
    /\ pageOp' = [pageOp EXCEPT ![p] = "none"]
    /\ IF ok
       THEN /\ pagesInUse' = pagesInUse \cup {p}
            /\ held' = [held EXCEPT ![p] = @ + 1]
       ELSE UNCHANGED <<pagesInUse, held>>
    /\ UNCHANGED <<availablePages, relFull, strayReleases, overlaps, poolClosePc,
                   poolClosePage, poolCloseTodo, poolCloseSnapshot, poolCloseMissed>>
    /\ relOutcome' = "none"
    /\ poolPage' = Collected(poolPage)
    /\ UNCHANGED nonPoolLeakVars
    /\ UNCHANGED <<crashes, quietClose>>
    /\ TrackContexts(poolCtx)

\* releasePage(p) is called (lines 96-111), by a caller that holds p or by
\* one that does not (it released p before, or never got it from the pool)
ReleasePage(p, holder, overlapLimit) ==
    /\ IF holder
       THEN /\ held[p] > 0
            /\ held' = [held EXCEPT ![p] = @ - 1]
            /\ UNCHANGED strayReleases
       ELSE /\ strayReleases < MaxStrayReleases
            /\ strayReleases' = strayReleases + 1
            /\ UNCHANGED held
    /\ IF ~CheckedOut(pagesInUse, p)
       THEN /\ relOutcome' = "noop"
            /\ UNCHANGED <<pagesInUse, pageOp, relFull, overlaps>>
       ELSE /\ pagesInUse' = pagesInUse \ {p}
            /\ IF IsClosed(poolPage, p)
               THEN /\ relOutcome' = "dropped"
                    /\ UNCHANGED <<pageOp, relFull, overlaps>>
               ELSE /\ relOutcome' = "none"
                    /\ pageOp[p] = "none"
                    /\ StartCall(overlapLimit)
                    /\ pageOp' = [pageOp EXCEPT ![p] = "reset"]
                    /\ relFull' = [relFull EXCEPT
                                     ![p] = Len(availablePages) >= MAX_POOL_SIZE]
    /\ UNCHANGED <<availablePages, poolClosePc, poolClosePage,
                   poolCloseTodo, poolCloseSnapshot, poolCloseMissed>>
    /\ poolPage' = Collected(poolPage)
    /\ UNCHANGED nonPoolLeakVars
    /\ UNCHANGED <<crashes, quietClose>>
    /\ TrackContexts(poolCtx)

\* page.setContent settles in releasePage (lines 111-126; ok also covers
\* page.context()): the page is pooled if the pool has room, otherwise
\* page.close() is called; a failure is caught and logged
ResetSettle(p, ok) ==
    /\ pageOp[p] = "reset"
    /\ ok => poolPage[p] = "open"
    /\ IF ok /\ ~PoolHasRoom(availablePages)
       THEN /\ pageOp' = [pageOp EXCEPT ![p] = "closePage"]
            /\ relOutcome' = "none"
            /\ UNCHANGED <<availablePages, relFull>>
       ELSE /\ availablePages' = IF ok THEN Append(availablePages, p)
                                       ELSE availablePages
            /\ pageOp' = [pageOp EXCEPT ![p] = "none"]
            /\ relFull' = [relFull EXCEPT ![p] = FALSE]
            /\ relOutcome' = ReleaseCatch(ok)
    /\ UNCHANGED <<pagesInUse, held, strayReleases, overlaps, poolClosePc, poolClosePage,
                   poolCloseTodo, poolCloseSnapshot, poolCloseMissed>>
    /\ poolPage' = Collected(poolPage)
    /\ UNCHANGED nonPoolLeakVars
    /\ UNCHANGED <<crashes, quietClose>>
    /\ TrackContexts(poolCtx)

\* page.close() settles in releasePage (lines 120-126): context.close() is
\* called next; a failure is caught and logged, the context is left alone
ReleaseClosePageSettle(p, ok) ==
    /\ pageOp[p] = "closePage"
    /\ IF ok
       THEN /\ pageOp' = [pageOp EXCEPT ![p] = "closeCtx"]
            /\ relOutcome' = "none"
            /\ UNCHANGED relFull
       ELSE /\ pageOp' = [pageOp EXCEPT ![p] = "none"]
            /\ relFull' = [relFull EXCEPT ![p] = FALSE]
            /\ relOutcome' = ReleaseCatch(FALSE)
    /\ UNCHANGED <<availablePages, pagesInUse, held, strayReleases, overlaps, poolClosePc,
                   poolClosePage, poolCloseTodo, poolCloseSnapshot, poolCloseMissed>>
    /\ poolPage' = Collected([poolPage EXCEPT ![p] = IF ok THEN "closed" ELSE @])
    /\ UNCHANGED nonPoolLeakVars
    /\ UNCHANGED <<crashes, quietClose>>
    /\ TrackContexts(poolCtx)

\* context.close() settles in releasePage (lines 121-126)
ReleaseCloseCtxSettle(p, ok) ==
    /\ pageOp[p] = "closeCtx"
    /\ pageOp' = [pageOp EXCEPT ![p] = "none"]
    /\ relFull' = [relFull EXCEPT ![p] = FALSE]
    /\ relOutcome' = ReleaseCatch(ok)
    /\ UNCHANGED <<availablePages, pagesInUse, held, strayReleases, overlaps, poolClosePc,
                   poolClosePage, poolCloseTodo, poolCloseSnapshot, poolCloseMissed>>
    /\ poolPage' = Collected(poolPage)
    /\ UNCHANGED nonPoolLeakVars
    /\ UNCHANGED <<crashes, quietClose>>
    /\ TrackContexts([poolCtx EXCEPT ![p] = IF ok THEN "closed" ELSE @])

\* closePagePool moves on (lines 135-156): to page q of the rest of
\* inUseArray; after the last one pagesInUse is cleared (clear is TRUE while
\* the first loop runs) and the pooled pages are popped one by one.  snap
\* and miss are the bookkeeping after the page just dealt with; what is
\* left of the snapshot when closePagePool returns was never closed.
PoolCloseNext(todo, clear, q, snap, miss) ==
    IF todo # {}
    THEN /\ q \in todo
         /\ poolCloseTodo' = todo \ {q}
         /\ poolClosePage' = q
         /\ poolClosePc' = "closeInUsePage"
         /\ poolCloseSnapshot' = snap
         /\ poolCloseMissed' = miss
         /\ UNCHANGED <<pagesInUse, availablePages>>
    ELSE /\ q = NoPage
         /\ poolCloseTodo' = {}
         /\ pagesInUse' = IF clear THEN {} ELSE pagesInUse
         /\ IF Len(availablePages) > 0
            THEN /\ poolClosePage' = Top(availablePages)
                 /\ availablePages' = Pop(availablePages)
                 /\ poolClosePc' = "closePooledPage"
                 /\ poolCloseSnapshot' = snap
                 /\ poolCloseMissed' = miss
            ELSE /\ poolClosePage' = NoPage
                 /\ poolClosePc' = "done"
                 /\ poolCloseSnapshot' = {}
                 /\ poolCloseMissed' = (miss \/ snap # {})
                 /\ UNCHANGED availablePages

\* closePagePool() is called (lines 132-138): what it does to the pool
ClosePagePoolCall(q) ==
    /\ poolClosePc = "idle"
    /\ StartCall(MaxShutdownOverlaps)
    /\ PoolCloseNext(pagesInUse, TRUE, q, pagesInUse \cup Range(availablePages), FALSE)
    /\ UNCHANGED <<pageOp, held, relFull, strayReleases>>
    /\ relOutcome' = "none"
    /\ poolPage' = Collected(poolPage)

\* a direct closePagePool() call
ClosePagePool(q) ==
    /\ ClosePagePoolCall(q)
    /\ quietClose' = (InFlight = {} /\ \A p \in Pages : held[p] = 0)
    /\ UNCHANGED nonPoolLeakVars
    /\ UNCHANGED crashes
    /\ TrackContexts(poolCtx)

\* page.close() settles in closePagePool (lines 138-142 and 150-154): on
\* success context.close() is called, on failure the catch is entered and
\* the loop moves on
PoolClosePageSettle(ok, q) ==
    /\ poolClosePc \in {"closeInUsePage", "closePooledPage"}
    /\ UNCHANGED <<pageOp, held, relFull, strayReleases, overlaps>>
    /\ relOutcome' = "none"
    /\ IF ok
       THEN /\ q = NoPage
            /\ poolClosePc' = IF poolClosePc = "closeInUsePage"
                              THEN "closeInUseCtx" ELSE "closePooledCtx"
            /\ UNCHANGED <<availablePages, pagesInUse, poolClosePage, poolCloseTodo,
                           poolCloseSnapshot, poolCloseMissed>>
            /\ poolPage' = Collected([poolPage EXCEPT ![poolClosePage] = "closed"])
       ELSE /\ PoolCloseNext(poolCloseTodo, poolClosePc = "closeInUsePage", q,
                             poolCloseSnapshot \ {poolClosePage},
                             poolCloseMissed \/ poolClosePage \in poolCloseSnapshot)
            /\ poolPage' = Collected(poolPage)
    /\ UNCHANGED nonPoolLeakVars
    /\ UNCHANGED <<crashes, quietClose>>
    /\ TrackContexts(poolCtx)

\* context.close() settles in closePagePool (lines 139-142 and 151-154)
PoolCloseCtxSettle(ok, q) ==
    /\ poolClosePc \in {"closeInUseCtx", "closePooledCtx"}
    /\ PoolCloseNext(poolCloseTodo, poolClosePc = "closeInUseCtx", q,
                     poolCloseSnapshot \ {poolClosePage}, poolCloseMissed)
    /\ UNCHANGED <<pageOp, held, relFull, strayReleases, overlaps>>
    /\ relOutcome' = "none"
    /\ poolPage' = Collected(poolPage)
    /\ UNCHANGED nonPoolLeakVars
    /\ UNCHANGED <<crashes, quietClose>>
    /\ TrackContexts([poolCtx EXCEPT ![poolClosePage] = IF ok THEN "closed" ELSE @])

\* a page of the pool closes itself (its renderer crashes); its context
\* stays open
PageCrash(p) ==
    /\ poolPage[p] = "open"
    /\ crashes < MaxCrashes
    /\ crashes' = crashes + 1
    /\ poolPage' = [poolPage EXCEPT ![p] = "closed"]
    /\ relOutcome' = "none"
    /\ UNCHANGED <<availablePages, pagesInUse, pageOp, held, relFull, strayReleases,
                   overlaps, poolClosePc, poolClosePage, poolCloseTodo, poolCloseSnapshot,
                   poolCloseMissed>>
    /\ UNCHANGED nonPoolLeakVars
    /\ UNCHANGED <<poolCtx, ctxLost, quietClose>>

\* Pages that are checked out and held by exactly one caller differ in
\* nothing but their number; the lowest-numbered one stands for them all.
HeldPages == {p \in pagesInUse : held[p] = 1 /\ poolPage[p] = "open"}
LowestHeld(p) == p \in HeldPages /\ \A q \in HeldPages : p <= q

\* getPage and releasePage calls by callers that release what they hold
NextPool ==
    \/ GetPage
    \/ \E p \in Pages : PoolGotBrowser(p)
    \/ \E p \in Pages, ok \in BOOLEAN : PoolNewContextSettle(p, ok)
    \/ \E p \in Pages, ok \in BOOLEAN : PoolNewPageSettle(p, ok)
    \/ \E p \in Pages, ok \in BOOLEAN : ViewportSettle(p, ok)
    \/ \E p \in Pages : LowestHeld(p) /\ ReleasePage(p, TRUE, MaxOverlaps)
    \/ \E p \in Pages, ok \in BOOLEAN : ResetSettle(p, ok)
    \/ \E p \in Pages, ok \in BOOLEAN : ReleaseClosePageSettle(p, ok)
    \/ \E p \in Pages, ok \in BOOLEAN : ReleaseCloseCtxSettle(p, ok)
    \/ \E l \in Launches, ok \in BOOLEAN : LaunchSettle(l, ok)
    \/ \E g \in Getters : JoinResume(g)

SpecPool == InitBrowserSpec /\ [][NextPool]_vars

\* the same with releasePage calls by non-holders and with closePagePool,
\* for fewer than MAX_POOL_SIZE pages (releasePage never finds the pool full)
\* and a browser whose launch succeeds
NextPoolShutdown ==
    \/ GetPageCall(MaxShutdownPages, MaxShutdownOverlaps)
    \/ \E p \in Pages : PoolGotBrowser(p)
    \/ \E p \in Pages, ok \in BOOLEAN : PoolNewContextSettle(p, ok)
    \/ \E p \in Pages, ok \in BOOLEAN : PoolNewPageSettle(p, ok)
    \/ \E p \in Pages, ok \in BOOLEAN : ViewportSettle(p, ok)
    \/ \E p \in Pages, holder \in BOOLEAN : ReleasePage(p, holder, MaxShutdownOverlaps)
    \/ \E p \in Pages, ok \in BOOLEAN : ResetSettle(p, ok)
    \/ \E q \in Pages \cup {NoPage} : ClosePagePool(q)
    \/ \E ok \in BOOLEAN, q \in Pages \cup {NoPage} : PoolClosePageSettle(ok, q)
    \/ \E ok \in BOOLEAN, q \in Pages \cup {NoPage} : PoolCloseCtxSettle(ok, q)
    \/ \E l \in Launches : LaunchSettle(l, TRUE)
    \/ \E g \in Getters : JoinResume(g)

SpecPoolShutdown == InitBrowserSpec /\ [][NextPoolShutdown]_vars

\* the same with pages that close themselves
NextPoolCrash ==
    \/ NextPoolShutdown
    \/ \E p \in Pages : PageCrash(p)

SpecPoolCrash == InitBrowserSpec /\ [][NextPoolCrash]_vars

(* --------------------------- captureScreenshot ------------------------- *)

\* what the try block of performCapture can throw, by what the code looks
\* at: whether it is an Error and whether its message contains "timeout"
\* and "crashed"
ErrorKinds == {"timeout", "crashed", "timeoutCrashed", "other", "notAnError"}
IsError(e) == e # "notAnError"
MessageHasTimeout(e) == e \in {"timeout", "timeoutCrashed"}
MessageHasCrashed(e) == e \in {"crashed", "timeoutCrashed"}

\* performCapture, lines 295-310: the catch block's classification
Classify(e) ==
    IF IsError(e) /\ MessageHasTimeout(e) THEN "PAGE_TIMEOUT"
    ELSE IF IsError(e) /\ MessageHasCrashed(e) THEN "PAGE_CRASH"
    ELSE "CAPTURE_FAILED"

\* Promise.race, line 255: the first of the two promises to settle decides,
\* a later one changes nothing
RaceSettleLastWins(current, v) == v
RaceSettle(current, v) == IF current = "pending" THEN v ELSE current

\* captureScreenshot(html, options) is called (lines 241-267): the timer is
\* armed and performCapture runs up to `await getBrowser()`; the calls are
\* numbered in the order they are made
CaptureScreenshot(s) ==
    /\ shotPc[s] = "idle"
    /\ \A t \in Shots : t < s => shotPc[t] # "idle"
    /\ shotTimer' = [shotTimer EXCEPT ![s] = "armed"]
    /\ shotPc' = [shotPc EXCEPT ![s] = "getBrowser"]
    /\ GetBrowserCall(ShotGetter(s))
    /\ UNCHANGED <<shotError, shotPending, shotCause, shotResult, shotCtx, shotPage>>
    /\ UNCHANGED <<gateVars, toolVars, poolVars, valVars, sigVars, adminVars, leakVars, fitVars>>

\* performCapture throws what a call before its try block threw (lines
\* 267-275): the promise of performCapture rejects with that error as it is
ShotSetupFails(s) ==
    /\ shotPc' = [shotPc EXCEPT ![s] = "settled"]
    /\ shotResult' = [shotResult EXCEPT ![s] = RaceSettle(@, "RAW_ERROR")]
    /\ UNCHANGED <<shotTimer, shotError, shotPending, shotCause, shotCtx, shotPage>>

\* performCapture resumes after `await getBrowser()` (line 267)
ShotGotBrowser(s) ==
    /\ shotPc[s] = "getBrowser"
    /\ getPc[ShotGetter(s)] = "done"
    /\ IF getResult[ShotGetter(s)] = Rejected
       THEN ShotSetupFails(s)
       ELSE /\ shotPc' = [shotPc EXCEPT ![s] = "newContext"]
            /\ UNCHANGED <<shotTimer, shotError, shotPending, shotCause, shotResult,
                           shotCtx, shotPage>>
    /\ UNCHANGED nonShotVars

\* browser.newContext settles (lines 268-273)
ShotNewContextSettle(s, ok) ==
    /\ shotPc[s] = "newContext"
    /\ IF ok
       THEN /\ shotPc' = [shotPc EXCEPT ![s] = "newPage"]
            /\ shotCtx' = [shotCtx EXCEPT ![s] = "open"]
            /\ UNCHANGED <<shotTimer, shotError, shotPending, shotCause, shotResult,
                           shotPage>>
       ELSE ShotSetupFails(s)
    /\ UNCHANGED nonShotVars

\* context.newPage settles (line 275)
ShotNewPageSettle(s, ok) ==
    /\ shotPc[s] = "newPage"
    /\ IF ok
       THEN /\ shotPc' = [shotPc EXCEPT ![s] = "render"]
            /\ shotPage' = [shotPage EXCEPT ![s] = "open"]
            /\ UNCHANGED <<shotTimer, shotError, shotPending, shotCause, shotResult,
                           shotCtx>>
       ELSE ShotSetupFails(s)
    /\ UNCHANGED nonShotVars

\* the try block (lines 277-310: setContent, waitForTimeout, screenshot) is
\* through: with the buffer (e = "none") or, in the catch block, with the
\* ScreenshotError made from the error e; the finally block calls page.close()
ShotRenderSettle(s, e) ==
    /\ shotPc[s] = "render"
    /\ shotPc' = [shotPc EXCEPT ![s] = "closePage"]
    /\ shotError' = [shotError EXCEPT ![s] = e]
    /\ shotPending' = [shotPending EXCEPT
                         ![s] = IF e = "none" THEN "buffer" ELSE Classify(e)]
    /\ shotCause' = [shotCause EXCEPT ![s] = e # "none"]
    /\ UNCHANGED <<shotTimer, shotResult, shotCtx, shotPage>>
    /\ UNCHANGED nonShotVars

\* performCapture is through its finally block (lines 311-319): its promise
\* settles with what the try or catch block left
ShotCaptureSettles(s) ==
    /\ shotPc' = [shotPc EXCEPT ![s] = "settled"]
    /\ shotResult' = [shotResult EXCEPT ![s] = RaceSettle(@, shotPending[s])]
    /\ shotError' = [shotError EXCEPT ![s] = "none"]
    /\ shotPending' = [shotPending EXCEPT ![s] = "none"]
    /\ shotCause' = [shotCause EXCEPT ![s] = FALSE]
    /\ UNCHANGED shotTimer

\* page.close() settles in the finally block (lines 313-318); if it throws,
\* context.close() is skipped
ShotClosePageSettle(s, ok) ==
    /\ shotPc[s] = "closePage"
    /\ IF ok
       THEN /\ shotPc' = [shotPc EXCEPT ![s] = "closeContext"]
            /\ shotPage' = [shotPage EXCEPT ![s] = "closed"]
            /\ UNCHANGED <<shotTimer, shotError, shotPending, shotCause, shotResult>>
       ELSE /\ shotPage' = [shotPage EXCEPT ![s] = "closeFailed"]
            /\ ShotCaptureSettles(s)
    /\ UNCHANGED shotCtx
    /\ UNCHANGED nonShotVars

\* context.close() settles in the finally block (lines 315-318)
ShotCloseContextSettle(s, ok) ==
    /\ shotPc[s] = "closeContext"
    /\ shotCtx' = [shotCtx EXCEPT ![s] = IF ok THEN "closed" ELSE "closeFailed"]
    /\ ShotCaptureSettles(s)
    /\ UNCHANGED shotPage
    /\ UNCHANGED nonShotVars

\* the timer of line 249 fires (it is never cleared): timeoutPromise rejects
\* with ScreenshotError TIMEOUT
ShotTimeout(s) ==
    /\ shotTimer[s] = "armed"
    /\ shotTimer' = [shotTimer EXCEPT ![s] = "fired"]
    /\ shotResult' = [shotResult EXCEPT ![s] = RaceSettle(@, "TIMEOUT")]
    /\ UNCHANGED <<shotPc, shotError, shotPending, shotCause, shotCtx, shotPage>>
    /\ UNCHANGED nonShotVars

NextShot ==
    \/ \E s \in Shots : CaptureScreenshot(s)
    \/ \E s \in Shots : ShotGotBrowser(s)
    \/ \E s \in Shots, ok \in BOOLEAN : ShotNewContextSettle(s, ok)
    \/ \E s \in Shots, ok \in BOOLEAN : ShotNewPageSettle(s, ok)
    \/ \E s \in Shots, e \in ErrorKinds \cup {"none"} : ShotRenderSettle(s, e)
    \/ \E s \in Shots, ok \in BOOLEAN : ShotClosePageSettle(s, ok)
    \/ \E s \in Shots, ok \in BOOLEAN : ShotCloseContextSettle(s, ok)
    \/ \E s \in Shots : ShotTimeout(s)
    \/ \E l \in Launches, ok \in BOOLEAN : LaunchSettle(l, ok)
    \/ \E g \in Getters : JoinResume(g)

SpecShot == InitBrowserSpec /\ [][NextShot]_vars

(* ------------------------ shutdown on a signal ------------------------ *)

\* Each arrival of SIGINT or SIGTERM runs the handler of lines 70-76 or 78-84
\* once; run k makes closeBrowser call k.  The pool holds no page here, so a
\* closePagePool() call finds both collections empty and returns.

\* the handler starts: disposeHighlighter(), then closePagePool() is called
\* (lines 71-72, 79-80)
Signal(k) ==
    /\ ~exited
    /\ sigPc[k] = "idle"
    /\ \A j \in Closers : j < k => sigPc[j] # "idle"
    /\ sigPc' = [sigPc EXCEPT ![k] = "closingPool"]
    /\ IF poolClosePc = "idle"
       THEN ClosePagePoolCall(NoPage)
       ELSE pagesInUse = {} /\ availablePages = <<>> /\ UNCHANGED poolVars
    /\ UNCHANGED exited
    /\ UNCHANGED <<gateVars, browserVars, toolVars, shotVars, valVars, adminVars, leakVars,
                   fitVars>>

\* the handler resumes after `await closePagePool()` and calls closeBrowser()
\* (lines 72-73, 80-81)
SignalPoolClosed(k) ==
    /\ ~exited
    /\ sigPc[k] = "closingPool"
    /\ poolClosePc = "done"
    /\ sigPc' = [sigPc EXCEPT ![k] = "closingBrowser"]
    /\ CloseBrowserCall(k)
    /\ UNCHANGED exited
    /\ UNCHANGED <<gateVars, toolVars, poolVars, shotVars, valVars, adminVars, leakVars, fitVars>>

\* the handler resumes after `await closeBrowser()` and calls server.close()
\* (lines 73-74, 81-82)
SignalBrowserClosed(k) ==
    /\ ~exited
    /\ sigPc[k] = "closingBrowser"
    /\ closePc[k] = "done"
    /\ sigPc' = [sigPc EXCEPT ![k] = IF closeOutcome[k] = "threw" THEN "failed"
                                                                 ELSE "closingServer"]
    /\ UNCHANGED exited
    /\ UNCHANGED <<gateVars, browserVars, toolVars, poolVars, shotVars, valVars, adminVars,
                   leakVars, fitVars>>

\* server.close() settles; the handler calls process.exit(0), unless
\* server.close() threw (lines 74-75, 82-83)
SignalServerClosed(k, ok) ==
    /\ ~exited
    /\ sigPc[k] = "closingServer"
    /\ sigPc' = [sigPc EXCEPT ![k] = IF ok THEN "exited" ELSE "failed"]
    /\ exited' = ok
    /\ UNCHANGED <<gateVars, browserVars, toolVars, poolVars, shotVars, valVars, adminVars,
                   leakVars, fitVars>>

\* nothing runs once the process has exited
NextShutdown ==
    \/ \E k \in Closers : Signal(k)
    \/ \E k \in Closers : SignalPoolClosed(k)
    \/ \E k \in Closers : SignalBrowserClosed(k)
    \/ \E k \in Closers, ok \in BOOLEAN : SignalServerClosed(k, ok)
    \/ ~exited /\ \E g \in DirectGetters : GetBrowser(g)
    \/ ~exited /\ \E l \in Launches, ok \in BOOLEAN : LaunchSettle(l, ok)
    \/ ~exited /\ \E g \in Getters : JoinResume(g)
    \/ ~exited /\ \E k \in Closers : CloseAfterLaunch(k)
    \/ ~exited /\ \E k \in Closers, ok \in BOOLEAN : CloseSettle(k, ok)

SpecShutdown == InitBrowserSpec /\ [][NextShutdown]_vars

(* --------------------- viewport of a content-fit capture --------------- *)

\* defaults of maxWidth and maxHeight (screenshot.ts, line 337)
DEFAULT_MAX_WIDTH == 2000
DEFAULT_MAX_HEIGHT == 5000

\* the caps a caller passes (UndefinedNumber: the option is left out) and
\* the content sizes page.evaluate reports, in pixels
CapValues == {UndefinedNumber, 1, 600, 2000, 6000}
MeasuredWidths == {0, 1, 600, 1999, 2000, 2001, 6000, 7000}
MeasuredHeights == {0, 600, 4999, 5000, 5001, 6000, 7000}

\* destructuring with a default (line 337): the default replaces undefined only
WithDefault(v, d) == IF v = UndefinedNumber THEN d ELSE v

\* Math.min of two numbers (lines 376-377)
MathMinAsMax(a, b) == IF a < b THEN b ELSE a
MathMin(a, b) == IF a < b THEN a ELSE b

\* captureScreenshotFullContent (lines 337-347): the options are read and the
\* context is created with a viewport of maxWidth by maxHeight
FitNewContext ==
    /\ fitPc = "idle"
    /\ fitPc' = "measure"
    /\ fitCaps' = [width |-> WithDefault(fitOptions.maxWidth, DEFAULT_MAX_WIDTH),
                   height |-> WithDefault(fitOptions.maxHeight, DEFAULT_MAX_HEIGHT)]
    /\ fitViewport' = fitCaps'
    /\ UNCHANGED <<fitOptions, fitDims>>
    /\ UNCHANGED nonFitVars

\* page.evaluate returns the content size w by h (lines 357-372)
FitMeasured(w, h) ==
    /\ fitPc = "measure"
    /\ fitPc' = "resize"
    /\ fitDims' = [width |-> w, height |-> h]
    /\ UNCHANGED <<fitOptions, fitCaps, fitViewport>>
    /\ UNCHANGED nonFitVars

\* page.setViewportSize is called with the smaller of the content size and
\* the cap in each dimension (lines 375-378)
FitResize ==
    /\ fitPc = "resize"
    /\ fitPc' = "snapshot"
    /\ fitViewport' = [width |-> MathMin(fitDims.width, fitCaps.width),
                       height |-> MathMin(fitDims.height, fitCaps.height)]
    /\ UNCHANGED <<fitOptions, fitCaps, fitDims>>
    /\ UNCHANGED nonFitVars

NextFit ==
    \/ FitNewContext
    \/ \E w \in MeasuredWidths, h \in MeasuredHeights : FitMeasured(w, h)
    \/ FitResize

\* every pair of caps explored is given to one call
InitFitSpec ==
    /\ InitResources
    /\ InitVal
    /\ maxConcurrentRenders = 1
    /\ fitPc = "idle"
    /\ fitOptions \in [maxWidth : CapValues, maxHeight : CapValues]
    /\ fitCaps = NoSize
    /\ fitDims = NoSize
    /\ fitViewport = NoSize

SpecFit == InitFitSpec /\ [][NextFit]_vars

(* ===================== properties of the admission gate =============== *)

\* calls that were granted a permit and have not given it back
SlotsGranted == {c \in Callers : acq[c] = "true" /\ releases[c] = 0}
\* calls that hold a release callback not yet invoked
Holders == {c \in Callers : slotPc[c] \in {"holding", "running"}}

\* C1: at most maxConcurrentRenders callers hold a granted, not yet released
\* render slot, and while that many release callbacks are held no further
\* call obtains one until a holder has released.
C1_AtMostNHeld ==
    /\ [](Cardinality(SlotsGranted) <= maxConcurrentRenders)
    /\ [][Cardinality(Holders) = maxConcurrentRenders => Holders' \subseteq Holders]_vars
C1_Witness ==
    /\ Cardinality(Holders) = maxConcurrentRenders
    /\ maxConcurrentRenders >= 2
    /\ \E c \in Callers : c \in Range(waiting) /\ slotPc[c] = "acquiring"

\* C2: the available-permit count always lies in [0, maxConcurrentRenders].
C2_PermitsInRange == permits \in 0..maxConcurrentRenders
C2_Witness ==
    /\ permits = maxConcurrentRenders
    /\ \E c \in Callers : woken[c] /\ releases[c] = 1
    /\ \E c \in Callers : timerFired[c]

\* C3: no permit is double-granted: the counter is decremented once per grant
\* and only for a grant; a call whose timeout fired is never woken and never
\* takes a permit; a woken call never reports a timeout.
C3_NoDoubleGrant ==
    /\ permits = maxConcurrentRenders - Cardinality(SlotsGranted)
    /\ \A c \in Callers :
        /\ grants[c] = (IF acq[c] = "true" THEN 1 ELSE 0)
        /\ ~(timerFired[c] /\ woken[c])
        /\ timerFired[c] => (acq[c] = "false" /\ c \notin Range(waiting) /\ ~timer[c])
        /\ woken[c] => (acq[c] = "true" /\ c \notin Range(waiting) /\ ~timer[c])
        /\ ticket[c] = 0 => (~timerFired[c] /\ ~woken[c])
        /\ acq[c] = "pending" => (slotPc[c] = "idle" \/ (timer[c] /\ c \in Range(waiting)))
C3_Witness ==
    \E c, d \in Callers :
        /\ timerFired[c] /\ woken[d]
        /\ ticket[c] < ticket[d]
        /\ slotPc[c] = "done" /\ slotPc[d] # "acquiring"

\* C4: permits go to waiters in arrival order: a release wakes the waiter
\* that was enqueued first among those still queued, and a call arriving
\* while waiters are queued is not granted a permit ahead of them.
C4_Fifo ==
    [][\A c \in Callers :
         /\ (woken'[c] /\ ~woken[c]) =>
                (c \in Range(waiting) /\ \A d \in Range(waiting) : ticket[c] <= ticket[d])
         /\ (slotPc[c] = "idle" /\ acq'[c] = "true") => waiting = <<>>]_vars
C4_Witness ==
    \E c, d \in Callers :
        /\ woken[c] /\ d \in Range(waiting)
        /\ 0 < ticket[c] /\ ticket[c] < ticket[d]

\* C5: an acquire that times out resolves with null, is removed from the
\* wait queue, leaves the available-permit count unchanged and increments
\* the timed-out counter by exactly one.
C5_TimeoutDenied ==
    [][\A c \in Callers :
         /\ (timerFired'[c] /\ ~timerFired[c]) =>
                /\ acq'[c] = "false"
                /\ c \notin Range(waiting')
                /\ permits' = permits
                /\ renderTimeouts' = renderTimeouts
         /\ (timerFired[c] /\ slotMode[c] = "direct" /\ slotPc[c] = "acquiring"
                /\ slotPc'[c] # "acquiring") =>
                /\ outcome'[c] = "null"
                /\ slotPc'[c] = "done"
                /\ renderTimeouts' = renderTimeouts + 1
                /\ permits' = permits
                /\ waiting' = waiting
                /\ activeRenderCount' = activeRenderCount]_vars
C5_Witness ==
    \E c \in Callers :
        /\ timerFired[c] /\ outcome[c] = "null"
        /\ renderTimeouts = 1 /\ permits = 0

\* C6: withRenderSlot runs fn only while holding a slot, releases the slot
\* exactly once when fn settles (resolved or thrown), and on an acquire
\* timeout rejects with the capacity error without running fn or releasing.
C6_WithRenderSlot ==
    \A c \in Callers : slotMode[c] = "with" =>
        /\ fnRuns[c] <= 1
        /\ slotPc[c] = "running" => (acq[c] = "true" /\ releases[c] = 0 /\ fnRuns[c] = 1)
        /\ outcome[c] \in {"value", "fnError"} =>
               (slotPc[c] = "done" /\ fnRuns[c] = 1 /\ releases[c] = 1)
        /\ (slotPc[c] = "done" /\ acq[c] = "false") =>
               (outcome[c] = "capacityError" /\ fnRuns[c] = 0 /\ releases[c] = 0)
        /\ outcome[c] \in {"none", "value", "fnError", "capacityError"}
C6_Witness ==
    \E c, d \in Callers :
        /\ slotMode[c] = "with" /\ outcome[c] = "fnError" /\ releases[c] = 1
        /\ slotMode[d] = "with" /\ outcome[d] = "capacityError"

(* ===================== properties of the browser manager ============== *)

PendingLaunches == {l \in Launches : launch[l] = "pending"}

\* C8: at most one launch is in flight; a getBrowser call made while a launch
\* is in flight starts no launch and joins it, and every call settles with
\* the outcome of the launch it waited for.
C8_SingleLaunch ==
    /\ [](/\ Cardinality(PendingLaunches) <= 1
          /\ \A l \in PendingLaunches : browserLaunchPromise = l
          /\ \A g \in Getters :
               (getPc[g] = "done" /\ getOn[g] # Null) => getResult[g] = LaunchValue(getOn[g]))
    /\ [][\A g \in Getters : \A l \in PendingLaunches :
            (getPc[g] = "idle" /\ getPc'[g] # "idle") =>
                (launch' = launch /\ getPc'[g] = "joined" /\ getOn'[g] = l)]_vars
C8_Witness ==
    \E g, h \in Getters :
        /\ g # h /\ getPc[g] = "done" /\ getPc[h] = "done"
        /\ getOn[g] = 1 /\ getOn[h] = 1
        /\ getResult[g] = 1 /\ getResult[h] = 1
        /\ LaunchCount = 1

\* C9: when the current browser disconnects the singleton reference is cleared
\* and no launch is started; isBrowserRunning is then false, and the next
\* getBrowser call starts exactly one launch and returns the new browser.
C9_DisconnectThenLazyRelaunch ==
    [][/\ \A b \in Launches :
            (browserInstance = b /\ connected[b] = "connected" /\ connected'[b] = "disconnected") =>
                /\ browserInstance' = Null
                /\ ~IsBrowserRunning'
                /\ launch' = launch
                /\ browserLaunchPromise' = browserLaunchPromise
       /\ \A g \in Getters :
            /\ (getPc[g] = "idle" /\ getPc'[g] # "idle"
                    /\ browserInstance = Null /\ browserLaunchPromise = Null) =>
                /\ getPc'[g] = "launching"
                /\ Cardinality({l \in Launches : launch'[l] = "pending"}) = 1
                /\ LaunchCount' = LaunchCount + 1
                /\ connected[getOn'[g]] = "none"
            /\ (getPc[g] = "launching" /\ getPc'[g] = "done" /\ launch'[getOn[g]] = "fulfilled") =>
                /\ getResult'[g] = getOn[g]
                /\ browserInstance' = getOn[g]
                /\ IsBrowserRunning']_vars
C9_Witness ==
    /\ connected[1] = "disconnected"
    /\ \A k \in Closers : closePc[k] = "idle"
    /\ browserInstance = 2 /\ IsBrowserRunning
    /\ \E g \in Getters : getPc[g] = "done" /\ getResult[g] = 2

\* C10: closeBrowser never throws, also when called repeatedly, with no
\* browser running, or when browser.close() fails; when it returns (no
\* getBrowser call having been made meanwhile) isBrowserRunning is false and
\* no launch is in flight, and a getBrowser call made next starts a fresh
\* launch whose browser it returns connected.
C10_CloseIdempotent ==
    /\ [](\A k \in Closers : closeOutcome[k] # "threw"
                               /\ (closePc[k] = "done" <=> closeOutcome[k] = "returned"))
    /\ [][\A k \in Closers :
            /\ (closePc[k] # "done" /\ closePc'[k] = "done" /\ ~getAfterClose[k]) =>
                (~IsBrowserRunning' /\ browserInstance' = Null /\ browserLaunchPromise' = Null)
            /\ \A g \in Getters :
                 /\ (closePc[k] = "done" /\ ~getAfterClose[k]
                        /\ getPc[g] = "idle" /\ getPc'[g] # "idle") =>
                     (getPc'[g] = "launching" /\ launch[getOn'[g]] = "unused"
                        /\ launch'[getOn'[g]] = "pending")
                 /\ (getPc[g] = "launching" /\ getPc'[g] = "done" /\ getResult'[g] # Rejected) =>
                     (connected[getResult'[g]] = "none"
                        /\ connected'[getResult'[g]] = "connected")]_vars
C10_Witness ==
    \E k1, k2 \in Closers : \E g \in Getters :
        /\ k1 # k2 /\ closeOutcome[k1] = "returned" /\ closeOutcome[k2] = "returned"
        /\ closeRef[k1] = 1 /\ closeRef[k2] = Null
        /\ connected[1] = "connected"
        /\ getPc[g] = "done" /\ getResult[g] = 2 /\ IsBrowserRunning

(* ===================== properties of create_code_image ================ *)

\* captures started by create_code_image that have begun and not yet ended
RunningCaptures == {r \in Requests : capPc[r] \notin {"none", "settled"}}

\* C7: every capture started by create_code_image runs under an admission
\* permit: a permit is taken for each running capture, so the captures running
\* at the same time never exceed maxConcurrentRenders.
C7_CapturesUnderPermit ==
    /\ Cardinality(RunningCaptures) <= maxConcurrentRenders - permits
    /\ Cardinality(RunningCaptures) <= maxConcurrentRenders


\* C11 (as stated): a closeBrowser call made while a launch is in progress
\* has, when it returns with no later launch started, left no browser
\* running: the reference is null, no launch is in flight, and the browser
\* that launch produced is no longer connected
C11_CloseDuringLaunchClosesBrowser ==
    [][\A k \in Closers :
         (closePc[k] # "done" /\ closePc'[k] = "done"
            /\ closeOn[k] # Null /\ LaunchCount' = closeOn[k])
         => /\ closeOutcome'[k] = "returned"
            /\ browserInstance' = Null
            /\ browserLaunchPromise' = Null
            /\ connected'[closeOn[k]] # "connected"]_vars

\* C11 (amended): a closeBrowser call made while a launch is in progress
\* does nothing until that launch settles; when it returns with no later
\* launch started it has not thrown, the reference is null, no launch is in
\* flight, browser.close() has been called on the launched browser (by this
\* or a concurrent closeBrowser call) unless it had already disconnected,
\* and that browser is no longer connected if this call's own
\* browser.close() succeeded
C11_CloseDuringLaunchAwaitsAndCloses ==
    /\ [](\A k \in Closers :
            (closeOn[k] # Null /\ launch[closeOn[k]] = "pending")
            => closePc[k] = "awaitLaunch")
    /\ [][\A k \in Closers :
            (closePc[k] # "done" /\ closePc'[k] = "done"
               /\ closeOn[k] # Null /\ LaunchCount' = closeOn[k])
            => /\ closeOutcome'[k] = "returned"
               /\ browserInstance' = Null
               /\ browserLaunchPromise' = Null
               /\ launch[closeOn[k]] = "fulfilled"
                  => /\ \/ connected'[closeOn[k]] = "disconnected"
                        \/ \E k2 \in Closers : closeRef'[k2] = closeOn[k]
                     /\ (closeRef'[k] = closeOn[k] /\ ~closeThrew'[k])
                        => connected'[closeOn[k]] = "disconnected"]_vars

\* a closeBrowser call that began during launch 1 has returned after closing
\* the browser that launch produced
C11_Witness ==
    \E k \in Closers :
        /\ closeOn[k] = 1 /\ closePc[k] = "done" /\ closeOutcome[k] = "returned"
        /\ launch[1] = "fulfilled" /\ closeRef[k] = 1 /\ ~closeThrew[k]
        /\ connected[1] = "disconnected"
        /\ browserInstance = Null /\ browserLaunchPromise = Null

\* C12: when a launch fails, the launch promise is cleared and no browser
\* is stored, the launching caller and every caller that joined the launch
\* get the failure, and the next getBrowser call starts a fresh launch
C12_FailedLaunchIsRetryable ==
    [][/\ \A l \in Launches :
            (launch[l] = "pending" /\ launch'[l] = "rejected")
            => /\ browserLaunchPromise' = Null
               /\ browserInstance' = Null
               /\ \A g \in Getters :
                    (getPc[g] = "launching" /\ getOn[g] = l)
                    => (getPc'[g] = "done" /\ getResult'[g] = Rejected)
       /\ \A g \in Getters :
            (getPc[g] = "joined" /\ getPc'[g] = "done"
               /\ launch[getOn[g]] = "rejected")
            => getResult'[g] = Rejected
       /\ \A g \in Getters :
            (getPc[g] = "idle" /\ getPc'[g] # "idle"
               /\ LaunchCount > 0 /\ launch[LaunchCount] = "rejected")
            => /\ getPc'[g] = "launching"
               /\ getOn'[g] = LaunchCount + 1
               /\ launch'[getOn'[g]] = "pending"]_vars

\* launch 1 failed, a caller got that failure, and a later caller obtained
\* the browser of a second launch
C12_Witness ==
    /\ launch[1] = "rejected"
    /\ \E g \in Getters : getOn[g] = 1 /\ getResult[g] = Rejected
    /\ \E g \in Getters : getOn[g] = 2 /\ getPc[g] = "done" /\ getResult[g] = 2
    /\ browserLaunchPromise = Null


(* ======================= properties of the page pool =================== *)

NoDuplicates(w) == \A i, j \in 1..Len(w) : w[i] = w[j] => i = j
\* a step in which the releasePage call on p ends after awaiting
ReleaseEnds(p) ==
    /\ pageOp[p] \in {"reset", "closePage", "closeCtx"}
    /\ pageOp'[p] = "none"
\* a step in which getPage returns p
GetPageReturns(p) ==
    /\ pageOp[p] \in {"viewport", "newPage"}
    /\ held'[p] = held[p] + 1
\* nothing but the bounds of the exploration stands in the way of a getPage call
GetPageExplorable ==
    /\ InFlight # {} => overlaps < MaxOverlaps
    /\ availablePages = <<>> =>
         /\ Unused # {}
         /\ \/ InstanceConnected(browserInstance, connected)
            \/ browserLaunchPromise # Null
            \/ LaunchCount < MaxLaunches

C14_ExclusiveOwnership ==
    /\ \A p \in Pages : ~(p \in pagesInUse /\ p \in Range(availablePages))
    /\ NoDuplicates(availablePages)
    /\ \A p \in Pages : held[p] <= 1

\* C15: a releasePage call on a page that is not in pagesInUse changes
\* neither collection and starts no reset or close of any page
C15_ReleaseNotCheckedOutIsNoop ==
    [][/\ \A p \in Pages :
            (held'[p] < held[p] /\ p \notin pagesInUse)
            => /\ relOutcome' = "noop"
               /\ UNCHANGED <<availablePages, pagesInUse, pageOp>>
       /\ (strayReleases' > strayReleases /\ pagesInUse' = pagesInUse)
          => /\ relOutcome' = "noop"
             /\ UNCHANGED <<availablePages, pageOp>>
       /\ relOutcome' = "noop"
          => UNCHANGED <<availablePages, pagesInUse, pageOp>>]_vars

\* the holder of a page that closePagePool dropped from pagesInUse has
\* just released it, and the call found the page not checked out
C15_Witness ==
    /\ relOutcome = "noop"
    /\ poolClosePc = "done"
    /\ strayReleases = 0

\* C16: releasePage never throws, and when a call on a page ends the page
\* is not in pagesInUse
C16_ReleaseNeverThrows ==
    /\ [](relOutcome # "threw")
    /\ [][\A p \in Pages : ReleaseEnds(p) => p \notin pagesInUse']_vars

\* a failure inside a releasePage call made with the pool full has just
\* been caught and logged
C16_Witness ==
    /\ relOutcome = "caught"
    /\ Len(availablePages) = MAX_POOL_SIZE

\* C17: when closePagePool returns both collections are empty and every
\* page that was in one of them when it was called has had page.close()
\* and context.close() called
C17_ClosePagePoolClosesAll ==
    [][(poolClosePc # "done" /\ poolClosePc' = "done")
       => /\ availablePages' = <<>>
          /\ pagesInUse' = {}
          /\ ~poolCloseMissed']_vars

\* C18: getPage is never held up by the number of pages in use; it creates
\* a page only when none is pooled, otherwise pops the top pooled page
\* without calling getBrowser; the page it returns is in pagesInUse and
\* not pooled
C18_GetPageNeverWaits ==
    /\ [](GetPageExplorable => ENABLED GetPage)
    /\ [][\A p \in Pages :
            /\ (pageOp[p] = "none" /\ pageOp'[p] = "getBrowser")
               => /\ availablePages = <<>>
                  /\ availablePages' = <<>>
            /\ (pageOp[p] = "none" /\ pageOp'[p] = "viewport")
               => /\ availablePages # <<>>
                  /\ p = Top(availablePages)
                  /\ availablePages' = Pop(availablePages)
                  /\ UNCHANGED browserVars
            /\ (pageOp[p] = "none" /\ pageOp'[p] \notin {"none", "reset"})
               => pageOp'[p] = IF availablePages = <<>> THEN "getBrowser" ELSE "viewport"
            /\ GetPageReturns(p)
               => /\ p \in pagesInUse'
                  /\ p \notin Range(availablePages')]_vars

\* more pages are in use than the pool may hold, some of them acquired by
\* overlapping getPage calls
C18_Witness ==
    /\ Cardinality(pagesInUse) > MAX_POOL_SIZE
    /\ overlaps > 0


(* ==================== properties of captureScreenshot ================== *)

ShotCodes == {"PAGE_TIMEOUT", "PAGE_CRASH", "CAPTURE_FAILED"}

\* C19: if performCapture has not settled when the timer fires,
\* captureScreenshot rejects with TIMEOUT; if performCapture settles before
\* the timer fires, captureScreenshot settles with performCapture's own
\* outcome; once settled the outcome never changes
C19_RaceWithTimer ==
    [][\A s \in Shots :
         /\ (shotTimer[s] = "armed" /\ shotTimer'[s] = "fired"
               /\ shotPc[s] # "settled")
            => shotResult'[s] = "TIMEOUT"
         /\ (shotPc[s] # "settled" /\ shotPc'[s] = "settled"
               /\ shotTimer[s] # "fired")
            => (shotResult'[s] = (IF shotPending[s] = "none" THEN "RAW_ERROR"
                                                             ELSE shotPending[s])
                /\ shotResult'[s] # "TIMEOUT")
         /\ shotResult[s] # "pending" => shotResult'[s] = shotResult[s]]_vars

\* one call was settled by the timer and its capture finished later; another
\* was settled by its capture and its timer fired later
C19_Witness ==
    \E s, t \in Shots :
        /\ shotResult[s] = "TIMEOUT" /\ shotPc[s] = "settled"
        /\ shotResult[t] = "buffer" /\ shotTimer[t] = "fired"

\* C21: every browser context opened by captureScreenshot has been closed,
\* together with its page, once performCapture is through: nothing it opened
\* is left open without a close() call, whether the capture succeeded, the
\* page could not be opened, the load or snapshot failed or page.close() threw
C21_ContextAndPageClosed ==
    \A s \in Shots :
        shotPc[s] = "settled" => shotCtx[s] # "open" /\ shotPage[s] # "open"

\* C20: whatever captureScreenshot fails with is a ScreenshotError with one
\* of the codes PAGE_TIMEOUT (the error's message says timeout), PAGE_CRASH
\* (it says crashed), CAPTURE_FAILED (anything else, failures of getBrowser,
\* newContext and newPage included) or TIMEOUT (the timer), and the first
\* three carry the original error as cause
C20_EveryFailureClassified ==
    \A s \in Shots :
        /\ shotResult[s] \in {"pending", "buffer", "TIMEOUT"} \cup ShotCodes
        /\ shotPc[s] \in {"closePage", "closeContext"}
           => /\ shotPending[s] \in {"buffer"} \cup ShotCodes
              /\ shotError[s] = "none" <=> shotPending[s] = "buffer"
              /\ shotError[s] = "timeout" => shotPending[s] = "PAGE_TIMEOUT"
              /\ shotError[s] = "crashed" => shotPending[s] = "PAGE_CRASH"
              /\ shotError[s] = "timeoutCrashed"
                 => shotPending[s] \in {"PAGE_TIMEOUT", "PAGE_CRASH"}
              /\ shotError[s] \in {"other", "notAnError"}
                 => shotPending[s] = "CAPTURE_FAILED"
              /\ shotPending[s] \in ShotCodes => shotCause[s]


(* ================ properties of create_code_image's input ============== *)

\* C26: for a non-empty code string, every theme string that is not a key of
\* the theme table yields errorCode INVALID_THEME, whatever the string is, and
\* with a valid (or omitted) theme every language string that is not a key of
\* the language table yields INVALID_LANGUAGE
C26_UnknownThemeOrLanguageCode ==
    (valResult # "none" /\ IsValidCode(valInput.code))
    => /\ (valInput.theme # Undefined /\ valInput.theme \notin ThemeTable)
          => valResult = "INVALID_THEME"
       /\ (valInput.theme \in ThemeTable \cup {Undefined}
             /\ valInput.language # Undefined
             /\ valInput.language \notin LanguageTable)
          => valResult = "INVALID_LANGUAGE"


(* ============ properties of create_code_image and its capture ========== *)

\* C22: every browser context opened by captureScreenshotFullContent has been
\* closed, together with its page, once the capture is through: nothing it
\* opened is left open without a close() call, whether the capture succeeded,
\* the page could not be opened, a step of the try block failed or
\* page.close() threw
C22_FullContentContextAndPageClosed ==
    \A r \in Requests :
        capPc[r] = "settled" => ctxState[r] # "open" /\ pageState[r] # "open"

\* C23: a content-fit capture whose page has loaded and which hangs in a
\* later step of its try block does not stay pending: it settles
C23_FullContentCaptureBounded ==
    \A r \in Requests : (capPc[r] = "work") ~> (capPc[r] = "settled")

\* C24: a createCodeImage call that has begun answers, whichever step is
\* still pending
C24_AnswersWithinDeadline ==
    \A r \in Requests : (reqPc[r] \in {"html", "capture"}) ~> (reqPc[r] = "done")

InvalidCodes == {"INVALID_CODE", "INVALID_THEME", "INVALID_LANGUAGE", "INVALID_PADDING",
                 "INVALID_EXPORT_SIZE", "INVALID_HIGHLIGHTED_LINES"}

\* C25: a createCodeImage call whose input fails validation returns its
\* failure result in the same step, with no rendering resource touched: no
\* browser launch, no context or page, no change of the pool or the gate, no
\* HTML generation, no timer; and the call does nothing afterwards
C25_InvalidInputTouchesNothing ==
    /\ [][\A r \in Requests :
            (reqPc[r] = "idle" /\ reqResult'[r] \in InvalidCodes)
            => /\ reqPc'[r] = "done"
               /\ UNCHANGED <<gateVars, browserVars, poolVars, shotVars>>
               /\ UNCHANGED <<reqTimer, capPc, capValue, ctxState, pageState>>]_vars
    /\ [](\A r \in Requests :
            reqResult[r] \in InvalidCodes
            => /\ reqPc[r] = "done"
               /\ capPc[r] = "none" /\ ctxState[r] = "none" /\ pageState[r] = "none"
               /\ getPc[ReqGetter(r)] = "idle"
               /\ ~reqTimer[r])

\* a call was rejected by validation while the capture of another was under way
C25_Witness ==
    \E r, q \in Requests :
        /\ reqResult[r] = "INVALID_PADDING"
        /\ capPc[q] = "work" /\ IsBrowserRunning

\* C27: createCodeImage never throws: a call that is over has returned the
\* success shape or a failure with an errorCode, and a failure of the HTML
\* generation, the launch or the capture that is no timeout is returned as
\* GENERATION_FAILED
C27_NeverThrows ==
    /\ [](\A r \in Requests :
            /\ reqResult[r] # "threw"
            /\ reqPc[r] = "done" => reqResult[r] # "none")
    /\ [][\A r \in Requests :
            (reqPc[r] = "capture" /\ reqPc'[r] = "done" /\ capPc[r] = "settled"
               /\ capValue[r] \in {"other", "notAnError"})
            => reqResult'[r] = "GENERATION_FAILED"]_vars

\* one call failed in its capture, another in its HTML generation
C27_Witness ==
    \E r, q \in Requests :
        /\ reqResult[r] = "GENERATION_FAILED" /\ capPc[r] = "settled"
        /\ reqResult[q] = "GENERATION_FAILED" /\ capPc[q] = "none"

\* C28: every failure result of createCodeImage carries one of the eight
\* documented errorCodes
C28_OnlyDocumentedCodes ==
    \A r \in Requests :
        reqResult[r] \in {"none", "success", "TIMEOUT", "GENERATION_FAILED"}
                         \cup InvalidCodes

\* one call was rejected for its highlighted lines, another timed out
C28_Witness ==
    \E r, q \in Requests :
        /\ reqResult[r] = "INVALID_HIGHLIGHTED_LINES"
        /\ reqResult[q] = "TIMEOUT"


(* ================= more properties of the admission gate =============== *)

\* C30: a release made while the wait queue is non-empty hands the freed
\* permit to the head waiter in the same step (the queue loses its head, the
\* head's acquire resolves true, the available count is unchanged), so
\* whenever the wait queue is non-empty no permit is available
C30_ReleasePrefersWaiter ==
    /\ [](waiting # <<>> => permits = 0)
    /\ [][\A c \in Callers :
            (releases'[c] = releases[c] + 1 /\ waiting # <<>>)
            => /\ waiting' = Tail(waiting)
               /\ permits' = permits
               /\ acq'[Head(waiting)] = "true"
               /\ woken'[Head(waiting)]]_vars

\* a release has woken the head waiter while another call is still queued
C30_Witness ==
    /\ waiting # <<>>
    /\ permits = 0
    /\ \E c \in Callers : woken[c] /\ acq[c] = "true"
    /\ \E c \in Callers : releases[c] = 1


(* ======================= properties of the shutdown ==================== *)

\* C29: the process exits only after the pool, the browser and the server
\* have been closed: when process.exit is called, closePagePool has returned
\* and no closeBrowser call begun by a handler is still waiting for a launch
\* or for browser.close()
C29_ExitAfterCleanup ==
    exited
    => /\ poolClosePc = "done"
       /\ \A k \in Closers : closePc[k] \notin {"awaitLaunch", "closing"}

(* ================= properties of the reconfigured gate ================= *)

\* C31: every acquireRenderSlot call eventually resolves: a call that is
\* waiting for a permit, whether on the current semaphore or on one that
\* resetRenderSemaphore has replaced, is eventually granted or denied
C31_AcquireEventuallyResolves ==
    \A c \in Callers : (slotPc[c] = "acquiring") ~> (slotPc[c] # "acquiring")

\* a call that was queued when the semaphore was replaced has been denied
\* by its timer, and another call queued on the new semaphore was granted
\* by a release
C31_Witness ==
    /\ \E c \in orphaned : timerFired[c] /\ outcome[c] = "null"
    /\ \E c \in Callers \ orphaned : woken[c] /\ outcome[c] = "release"

\* C32: resetRenderSemaphore resets every counter of the gate: right after
\* the call getRenderStats reports available = maxConcurrentRenders,
\* waiting = 0, activeRenders = 0, totalRenders = 0 and timeouts = 0
C32_ResetClearsCounters ==
    [][resets' = resets + 1
       => /\ permits' = maxConcurrentRenders'
          /\ Len(waiting') = 0
          /\ activeRenderCount' = 0
          /\ totalRenderCount' = 0
          /\ renderTimeouts' = 0]_vars

\* C33: configureConcurrency sets the capacity of the gate: once it has been
\* called with no operation in flight (and no reset was made with one in
\* flight, and no release callback was invoked twice), at most
\* maxConcurrentRenders release callbacks are held at the same time and the
\* available-permit count does not exceed maxConcurrentRenders
C33_ConfiguredCapacity ==
    (/\ configures > 0
     /\ ~unsafeAdmin
     /\ \A c \in Callers : releases[c] <= 1)
    => /\ Cardinality(Holders) <= maxConcurrentRenders
       /\ permits <= maxConcurrentRenders

\* calls whose acquireRenderSlot resolved with a release callback, and with null
GotCallback == {c \in Callers : acq[c] = "true" /\ slotPc[c] # "acquiring"}
Denied == {c \in Callers : acq[c] = "false" /\ slotPc[c] # "acquiring"}

\* C34: the monitoring counters match the history of the gate: totalRenders
\* is the number of acquires that resolved with a release callback, timeouts
\* the number that resolved with null, activeRenders the number of callbacks
\* returned and not yet invoked, and activeRenders lies in
\* [0, maxConcurrentRenders]
C34_CountersMatchHistory ==
    /\ totalRenderCount = Cardinality(GotCallback)
    /\ renderTimeouts = Cardinality(Denied)
    /\ activeRenderCount = Cardinality({c \in GotCallback : releases[c] = 0})
    /\ activeRenderCount \in 0..maxConcurrentRenders

\* two acquires were granted, one of them has released, and a third timed out
C34_Witness ==
    /\ totalRenderCount = 2
    /\ renderTimeouts = 1
    /\ activeRenderCount = 1
    /\ \E c \in Callers : releases[c] = 1

\* C37: a release callback gives back one permit however often it is
\* invoked: a second or later invocation changes neither the available
\* permits nor activeRenders and wakes no waiter, so that (with no
\* reconfiguration) available never exceeds maxConcurrentRenders and
\* activeRenders never becomes negative
C37_ReleaseIdempotent ==
    /\ [][\A c \in Callers :
            (releases[c] >= 1 /\ releases'[c] = releases[c] + 1)
            => /\ permits' = permits
               /\ activeRenderCount' = activeRenderCount
               /\ waiting' = waiting
               /\ woken' = woken]_vars
    /\ []((resets = 0 /\ configures = 0)
          => (permits <= maxConcurrentRenders /\ activeRenderCount >= 0))

(* ================== properties of stale disconnections ================= *)

\* C38: a "disconnected" event of a browser that is not the current
\* singleton leaves the reference to the current browser alone, and a
\* getBrowser call made while the singleton is connected returns it without
\* starting a launch
C38_StaleDisconnectIgnored ==
    /\ [][\A b \in Launches :
            (/\ connected[b] = "connected"
             /\ connected'[b] = "disconnected"
             /\ browserInstance # b)
            => /\ browserInstance' = browserInstance
               /\ (IsBrowserRunning => IsBrowserRunning')]_vars
    /\ [][\A g \in Getters :
            (getPc[g] = "idle" /\ getPc'[g] # "idle" /\ IsBrowserRunning)
            => /\ getPc'[g] = "done"
               /\ getResult'[g] = browserInstance
               /\ launch' = launch
               /\ browserLaunchPromise' = browserLaunchPromise]_vars

\* the event of a browser closed by closeBrowser arrived after a relaunch had
\* made another browser the singleton, which is still current and connected
\* and has been returned by a getBrowser call that did not launch
C38_Witness ==
    /\ staleNotified # {}
    /\ IsBrowserRunning
    /\ browserInstance \notin staleNotified
    /\ \E g \in Getters :
          getPc[g] = "done" /\ getResult[g] = browserInstance /\ getOn[g] = Null

(* ================= properties of pages that are closed ================= *)

\* C35: releasePage of a checked-out page that is already closed removes it
\* from the in-use set, leaves the available set alone, starts no reset and
\* no close on it and returns normally; and every page getPage hands out is
\* open, so the dropped page is never handed out again
C35_ClosedPageDropped ==
    /\ [][\A p \in Pages :
            (/\ p \in pagesInUse
             /\ poolPage[p] = "closed"
             /\ p \notin pagesInUse'
             /\ poolClosePc' = poolClosePc)
            => /\ availablePages' = availablePages
               /\ pageOp'[p] = "none"
               /\ relOutcome' = "dropped"
               /\ poolPage'[p] # "open"]_vars
    /\ [][\A p \in Pages :
            (p \notin pagesInUse /\ p \in pagesInUse') => poolPage'[p] = "open"]_vars

\* a page that closed itself while it was checked out has just been
\* released by its holder, with no closePagePool call made
C35_Witness ==
    /\ relOutcome = "dropped"
    /\ crashes = 1
    /\ poolClosePc = "idle"
    /\ strayReleases = 0

\* C39: the page pool leaks no context: when closePagePool, called after
\* every page had been released and with no pool call in flight (none ever
\* started while another was running, and no page was released by a caller
\* that did not hold it), completes, every context created by getPage has
\* been closed
C39_NoContextLeak ==
    [][(/\ poolClosePc # "done"
        /\ poolClosePc' = "done"
        /\ quietClose'
        /\ overlaps' = 0
        /\ strayReleases' = 0
        /\ \A p \in Pages : held'[p] = 0 /\ pageOp'[p] = "none")
       => /\ ~ctxLost'
          /\ \A p \in Pages : poolCtx'[p] # "open"]_vars

(* ============ properties of the content-fit capture viewport =========== *)

\* C36: the viewport applied before the snapshot of a content-fit capture
\* never exceeds a cap (2000 by 5000 unless the caller gives others), and a
\* dimension equals the measured one whenever that is below its cap, and
\* the cap otherwise
C36_ViewportWithinCaps ==
    fitPc = "snapshot"
    => /\ fitCaps.width = IF fitOptions.maxWidth = UndefinedNumber
                          THEN 2000 ELSE fitOptions.maxWidth
       /\ fitCaps.height = IF fitOptions.maxHeight = UndefinedNumber
                           THEN 5000 ELSE fitOptions.maxHeight
       /\ fitViewport.width <= fitCaps.width
       /\ fitViewport.height <= fitCaps.height
       /\ fitDims.width < fitCaps.width => fitViewport.width = fitDims.width
       /\ fitDims.height < fitCaps.height => fitViewport.height = fitDims.height
       /\ fitDims.width >= fitCaps.width => fitViewport.width = fitCaps.width
       /\ fitDims.height >= fitCaps.height => fitViewport.height = fitCaps.height

\* with the default caps, content that is narrower than 2000 and taller than
\* 5000 got a viewport of its own width and of the capped height
C36_Witness ==
    /\ fitPc = "snapshot"
    /\ fitOptions.maxWidth = UndefinedNumber
    /\ fitOptions.maxHeight = UndefinedNumber
    /\ fitDims.width = 1999 /\ fitViewport.width = 1999
    /\ fitDims.height = 5001 /\ fitViewport.height = 5000

====
